---- MODULE Spec2Model ----
(***************************************************************************)
(* Model of the kansei_rust engine core: the orbit camera controller       *)
(* (core_engine/camera_controls.rs), the scene and meshes (scene.rs,       *)
(* mesh.rs), the renderer's draw loop (renderer.rs) and the Engine facade  *)
(* (lib.rs).                                                               *)
(*                                                                         *)
(* Numbers.  The code computes in f32.  The model computes in fixed point: *)
(*   - pixel coordinates and viewport sizes are integers (the code casts   *)
(*     i32 page coordinates to f32, which is exact);                       *)
(*   - angles in turns, offsets, radius, wheel_delta, smoothed pointer and *)
(*     the time accumulators are integers counting 1/1000 (Milli);         *)
(*   - final_radians counts micro-radians; one milli-turn is TwoPi         *)
(*     micro-radians;                                                      *)
(*   - a division rounds toward zero (FDiv), standing for the rounding of  *)
(*     the f32 quotient to the precision of the representation.            *)
(***************************************************************************)
EXTENDS Integers, Sequences, FiniteSets, TLC

VARIABLES
    s,          \* CameraControlsState, the Rc<RefCell<..>> shared with the listeners
    cc,         \* CameraControls' own fields: target, radius, wheel_delta_ease, offset_ease, time
    camera,     \* the Camera owned by the controls
    scene,      \* Scene.children: sequence of Mesh
    renderer,   \* Renderer: surface configuration, depth texture, clear colour
    gpu,        \* the device/queue side: handles created, and the last frame's commands
    time,       \* Engine.time
    touching,   \* TouchEvent.touches: identifiers of the touch points on the surface,
                \* in order of arrival (tracked in the multi-touch runs)
    matrix,     \* the Matrix4 returned by the last Mesh::model_matrix call
    shape,      \* the Geometry returned by the last BoxGeometry::new / PlaneGeometry::new call
    cell,       \* the RefCell around CameraControlsState: its borrow flag, and the call
                \* of the single wasm thread that is on the stack (tracked in the borrow runs)
    last_op     \* the operation that produced the current state (call trace)

vars == <<s, cc, camera, scene, renderer, gpu, time, touching, matrix, shape, cell, last_op>>
ctl  == <<s, cc, camera>>

----------------------------------------------------------------------------
(* Fixed-point arithmetic *)

Milli == 10 * 10 * 10

Abs(a) == IF a >= 0 THEN a ELSE -a

\* f32 division a / b for b > 0, rounded toward zero
FDiv(a, b) == IF a >= 0 THEN a \div b ELSE -((-a) \div b)

\* PI * 2.0 : micro-radians in one milli-turn
TwoPi == 6283

\* std::f32::consts::PI in milli-radians
Pi == 3141

Vec3(x, y, z) == [x |-> x, y |-> y, z |-> z]

----------------------------------------------------------------------------
(* Bounds of the model *)

\* page coordinates carried by pointer, touch and wheel events
Points == {<<0, 0>>, <<300, 600>>}

\* viewport sizes given to set_window_size (positive)
ViewportSizes == {<<1000, 1000>>, <<1000, 2000>>}

\* event.delta_y() of a wheel event: one notch either way
WheelDeltas == {-100, 100}
\* the guards keep |wheel_delta - radius0| within MaxWheel notches (10.0 each)
MaxWheel == 1
\* the guards keep |current_angles.yaw| within MaxYaw tenths of a turn
MaxYaw == 3
\* number of CameraControls::update calls (caps the time accumulator)
MaxUpdates == 2
\* delta_time of an update
DeltaTimes == {1 * Milli, 2 * Milli}
\* changed_touches carries at most MaxTouches touch points
MaxTouches == 1
\* update calls after the last input in the convergence runs
ConvergeCalls == 100
\* the zoom runs keep |wheel_delta - radius0| within MaxNotches notches
MaxNotches == 6
\* update calls after the last wheel event in the zoom runs
ZoomCalls == 40
\* the matrix runs turn a mesh by 0..MaxQuarters quarter turns about each axis
MaxQuarters == 1
\* the factory runs build shapes of 1..MaxDim units a side (and of 0 and -2 units)
MaxDim == 3
\* the borrow runs make up to MaxCalls calls into the module
MaxCalls == 4
\* meshes ever constructed by the library user (Mesh::new calls)
MaxMeshes == 3
\* Engine::render / Renderer::render calls (caps Engine.time)
MaxFrames == 2
\* depth textures ever created by Renderer::set_size
MaxResizes == 1
\* sizes given to Renderer::set_size and Engine::set_size
Sizes == {<<0, 600>>, <<800, 0>>, <<0, 0>>, <<1024, 768>>}
\* size of the canvas at Renderer::new
canvas_size == <<800, 600>>

----------------------------------------------------------------------------
(* Camera (camera.rs) *)

\* Camera::new(fov, near, far, aspect); fov is kept in degrees*Milli before to_radians
CameraNew(fov, near, far, aspect) ==
    [ position       |-> [base |-> Vec3(0, 0, 5 * Milli), yaw |-> 0, pitch |-> 0, radius |-> 0],
      rotation       |-> Vec3(0, 0, 0),
      fov            |-> fov,
      aspect         |-> aspect,
      near           |-> near,
      far            |-> far,
      look_at_target |-> [some |-> FALSE, v |-> Vec3(0, 0, 0)] ]

\* mutant: look_at keeps the first target it was given
CameraLookAtOnce(cam, target) ==
    IF cam.look_at_target.some THEN cam
    ELSE [cam EXCEPT !.look_at_target = [some |-> TRUE, v |-> target]]

\* Camera::look_at
CameraLookAt(cam, target) ==
    [cam EXCEPT !.look_at_target = [some |-> TRUE, v |-> target]]

\* Camera::view_matrix_glam, the center handed to look_at_rh
ViewCenter(cam) ==
    IF cam.look_at_target.some THEN cam.look_at_target.v ELSE Vec3(0, 0, 0)

\* mutant: update_aspect stores nothing
CameraKeepAspect(cam, aspect) == cam

\* Camera::update_aspect
CameraUpdateAspect(cam, aspect) == [cam EXCEPT !.aspect = aspect]

\* width as f32 / height as f32
Ratio(w, h) ==
    IF h = 0
    THEN (IF w = 0 THEN [kind |-> "nan", v |-> 0] ELSE [kind |-> "inf", v |-> 0])
    ELSE [kind |-> "finite", v |-> FDiv(w * Milli, h)]

----------------------------------------------------------------------------
(* CameraControls (camera_controls.rs) *)

prev_angles0 == <<40, 50>>
radius0 == 50 * Milli

\* CameraControls::new: the shared state
StateNew(radius, window_width, window_height) ==
    [ displacement   |-> <<0, 0>>,
      prev_angles    |-> prev_angles0,
      current_angles |-> prev_angles0,
      final_radians  |-> <<prev_angles0[1] * TwoPi, prev_angles0[2] * TwoPi>>,
      down_point     |-> <<0, 0>>,
      down           |-> FALSE,
      wheel_delta    |-> radius,
      mouse_x        |-> -1 * Milli,
      mouse_y        |-> -1 * Milli,
      raw_mouse_x    |-> -1 * Milli,     \* _mouse_x
      raw_mouse_y    |-> -1 * Milli,     \* _mouse_y
      enabled        |-> TRUE,
      offset         |-> Vec3(0, 0, 0),
      limits         |-> <<200, -200>>,
      window_width   |-> window_width,
      window_height  |-> window_height ]

\* CameraControls::new: the controls' own fields
ControlsNew(target, radius) ==
    [ target           |-> target,
      radius           |-> radius,
      wheel_delta_ease |-> radius,
      offset_ease      |-> Vec3(0, 0, 0),
      time             |-> 0 ]

\* Rc::new(RefCell::new(state)): flag is the RefCell's borrow flag (0 unused, -1
\* mutably borrowed), call the closure or method of the wasm thread that is on
\* the stack, borrowed whether that call holds the RefMut, calls the number of
\* calls entered so far
CellNew == [flag |-> 0, call |-> "none", borrowed |-> FALSE, panicked |-> FALSE, calls |-> 0]

\* state.borrow_mut(): panics with BorrowMutError unless the flag is 0
BorrowMut(c) ==
    IF c.flag = 0
    THEN [c EXCEPT !.flag = -1, !.borrowed = TRUE]
    ELSE [c EXCEPT !.panicked = TRUE]

\* mutant: a RefMut that outlives its call (the guard is leaked, not dropped)
ReturnLeaking(c) == [c EXCEPT !.call = "none", !.borrowed = FALSE]

\* the end of a closure or method: the RefMut, if the call holds one, is dropped
\* and the call returns
Return(c) ==
    [c EXCEPT !.flag = IF c.borrowed THEN 0 ELSE @, !.call = "none", !.borrowed = FALSE]

\* mutant: the wheel closure keeps wheel_delta at 1.0 or more
OnWheelFloored(st, delta_y, page_x, page_y) ==
    IF st.enabled
    THEN [st EXCEPT !.wheel_delta =
                        IF @ - FDiv(delta_y * Milli, 10) < 1 * Milli
                        THEN 1 * Milli
                        ELSE @ - FDiv(delta_y * Milli, 10),
                    !.raw_mouse_x = page_x * Milli,
                    !.raw_mouse_y = page_y * Milli,
                    !.mouse_x = page_x * Milli,
                    !.mouse_y = page_y * Milli]
    ELSE st

\* wheel closure
OnWheel(st, delta_y, page_x, page_y) ==
    IF st.enabled
    THEN [st EXCEPT !.wheel_delta = @ - FDiv(delta_y * Milli, 10),
                    !.raw_mouse_x = page_x * Milli,
                    !.raw_mouse_y = page_y * Milli,
                    !.mouse_x = page_x * Milli,
                    !.mouse_y = page_y * Milli]
    ELSE st

\* mutant: mousedown without the enabled check
OnMouseDownAlways(st, page_x, page_y) ==
    [st EXCEPT !.down = TRUE, !.down_point = <<page_x, page_y>>]

\* mutant: mousedown also commits the angles of the drag in progress
OnMouseDownCommits(st, page_x, page_y) ==
    IF st.enabled
    THEN [st EXCEPT !.down = TRUE, !.down_point = <<page_x, page_y>>,
                    !.prev_angles = st.current_angles]
    ELSE st

\* mousedown closure
OnMouseDown(st, page_x, page_y) ==
    IF st.enabled
    THEN [st EXCEPT !.down = TRUE, !.down_point = <<page_x, page_y>>]
    ELSE st

\* mutant: mouseup does not commit the angles
OnMouseUpNoCommit(st, page_x, page_y) ==
    IF st.enabled
    THEN [st EXCEPT !.down = FALSE,
                    !.raw_mouse_x = page_x * Milli,
                    !.raw_mouse_y = page_y * Milli,
                    !.mouse_x = page_x * Milli,
                    !.mouse_y = page_y * Milli]
    ELSE st

\* mouseup closure
OnMouseUp(st, page_x, page_y) ==
    IF st.enabled
    THEN [st EXCEPT !.down = FALSE,
                    !.prev_angles = st.current_angles,
                    !.raw_mouse_x = page_x * Milli,
                    !.raw_mouse_y = page_y * Milli,
                    !.mouse_x = page_x * Milli,
                    !.mouse_y = page_y * Milli]
    ELSE st

\* mutant: the parallax offset without the centring by 0.5
ParallaxOffsetUncentred(page, window) == FDiv(page * Milli, window) * (-30)

\* the parallax offset of a move: (page / window - 0.5) * -30
ParallaxOffset(page, window) == (FDiv(page * Milli, window) - 500) * (-30)

\* mutant: the upper limit is never applied
ClampUpperMissing(st, page_y) == st

\* mutant: the upper limit is applied without rebasing down_point
ClampUpperNoRebase(st, page_y) ==
    IF st.current_angles[2] > st.limits[1]
    THEN [st EXCEPT !.current_angles[2] = st.limits[1],
                    !.prev_angles[2] = st.limits[1]]
    ELSE st

\* "Check if outside limits", upper limit (limits.0)
ClampUpper(st, page_y) ==
    IF st.current_angles[2] > st.limits[1]
    THEN [st EXCEPT !.current_angles[2] = st.limits[1],
                    !.prev_angles[2] = st.limits[1],
                    !.down_point[2] = page_y]
    ELSE st

\* "Check if outside limits", lower limit (limits.1)
ClampLower(st, page_y) ==
    IF st.current_angles[2] < st.limits[2]
    THEN [st EXCEPT !.current_angles[2] = st.limits[2],
                    !.prev_angles[2] = st.limits[2],
                    !.down_point[2] = page_y]
    ELSE st

\* mutant: the drag branch holds the yaw within the pitch limits too
DragAnglesYawClamped(st, page_x, page_y) ==
    LET dx == FDiv((st.down_point[1] - page_x) * Milli, st.window_width)
        dy == FDiv((st.down_point[2] - page_y) * Milli, st.window_height)
        yaw == st.prev_angles[1] + dx
    IN  [st EXCEPT !.displacement = <<dx, dy>>,
                   !.current_angles =
                       << IF yaw > st.limits[1] THEN st.limits[1]
                          ELSE IF yaw < st.limits[2] THEN st.limits[2] ELSE yaw,
                          st.prev_angles[2] - dy >>]

\* the drag branch of a move: displacement and angles, before the limits
DragAngles(st, page_x, page_y) ==
    LET dx == FDiv((st.down_point[1] - page_x) * Milli, st.window_width)
        dy == FDiv((st.down_point[2] - page_y) * Milli, st.window_height)
    IN  [st EXCEPT !.displacement = <<dx, dy>>,
                   !.current_angles = <<st.prev_angles[1] + dx, st.prev_angles[2] - dy>>]

\* mousemove closure
OnMouseMove(st, page_x, page_y) ==
    IF ~st.enabled
    THEN st
    ELSE LET o == [st EXCEPT !.offset.x = ParallaxOffset(page_x, st.window_width),
                             !.offset.y = ParallaxOffset(page_y, st.window_height)]
         IN  IF o.down
             THEN ClampLower(ClampUpper(DragAngles(o, page_x, page_y), page_y), page_y)
             ELSE [o EXCEPT !.raw_mouse_x = page_x * Milli,
                            !.raw_mouse_y = page_y * Milli]

\* touchstart closure; touches = event.changed_touches() as a sequence of <<page_x, page_y>>
OnTouchStart(st, touches) ==
    IF Len(touches) > 0
    THEN LET touch == touches[1]
         IN  IF st.enabled
             THEN [st EXCEPT !.down = TRUE, !.down_point = <<touch[1], touch[2]>>]
             ELSE st
    ELSE st

\* mutant: touchend does not commit the angles
OnTouchEndNoCommit(st, touches) ==
    IF Len(touches) > 0
    THEN LET touch == touches[1]
         IN  IF st.enabled
             THEN [st EXCEPT !.down = FALSE,
                             !.raw_mouse_x = touch[1] * Milli,
                             !.raw_mouse_y = touch[2] * Milli,
                             !.mouse_x = touch[1] * Milli,
                             !.mouse_y = touch[2] * Milli]
             ELSE st
    ELSE st

\* touchend closure
OnTouchEnd(st, touches) ==
    IF Len(touches) > 0
    THEN LET touch == touches[1]
         IN  IF st.enabled
             THEN [st EXCEPT !.down = FALSE,
                             !.prev_angles = st.current_angles,
                             !.raw_mouse_x = touch[1] * Milli,
                             !.raw_mouse_y = touch[2] * Milli,
                             !.mouse_x = touch[1] * Milli,
                             !.mouse_y = touch[2] * Milli]
             ELSE st
    ELSE st

\* touchmove closure
OnTouchMove(st, touches) ==
    IF Len(touches) > 0
    THEN LET page_x == touches[1][1]
             page_y == touches[1][2]
         IN  IF ~st.enabled
             THEN st
             ELSE LET o == [st EXCEPT !.offset.x = ParallaxOffset(page_x, st.window_width),
                                      !.offset.y = ParallaxOffset(page_y, st.window_height)]
                  IN  IF o.down
                      THEN LET dx == FDiv((o.down_point[1] - page_x) * Milli, o.window_width)
                               dy == FDiv((o.down_point[2] - page_y) * Milli, o.window_height)
                               d  == [o EXCEPT !.displacement = <<dx, dy>>,
                                               !.current_angles =
                                                   <<o.prev_angles[1] + dx, o.prev_angles[2] - dy>>]
                               u  == IF d.current_angles[2] > d.limits[1]
                                     THEN [d EXCEPT !.current_angles[2] = d.limits[1],
                                                    !.prev_angles[2] = d.limits[1],
                                                    !.down_point[2] = page_y]
                                     ELSE d
                           IN  IF u.current_angles[2] < u.limits[2]
                               THEN [u EXCEPT !.current_angles[2] = u.limits[2],
                                              !.prev_angles[2] = u.limits[2],
                                              !.down_point[2] = page_y]
                               ELSE u
                      ELSE [o EXCEPT !.raw_mouse_x = page_x * Milli,
                                     !.raw_mouse_y = page_y * Milli]
    ELSE st

\* CameraControls::set_window_size
SetWindowSize(st, width, height) ==
    [st EXCEPT !.window_width = width, !.window_height = height]

\* CameraControls::set_target
SetTargetControls(c, target) == [c EXCEPT !.target = target]

\* mutant: set_enabled also ends the drag
SetEnabledReleases(st, enabled) == [st EXCEPT !.enabled = enabled, !.down = FALSE]

\* CameraControls::set_enabled
SetEnabledState(st, enabled) == [st EXCEPT !.enabled = enabled]

\* mutant: the easing step adds twice the distance
EaseOvershoot(value, goal, n) == value + (goal - value) * 2

\* one easing step: value += (goal - value) / n
Ease(value, goal, n) == value + FDiv(goal - value, n)

\* mutant: update leaves the shared state alone while the controls are disabled
UpdateStateGated(st) ==
    IF st.enabled
    THEN [st EXCEPT !.final_radians =
                        << Ease(st.final_radians[1], st.current_angles[1] * TwoPi, 20),
                           Ease(st.final_radians[2], st.current_angles[2] * TwoPi, 50) >>,
                    !.mouse_x = Ease(st.mouse_x, st.raw_mouse_x, 10),
                    !.mouse_y = Ease(st.mouse_y, st.raw_mouse_y, 10)]
    ELSE st

\* CameraControls::update, the shared state
UpdateState(st) ==
    [st EXCEPT !.final_radians =
                   << Ease(st.final_radians[1], st.current_angles[1] * TwoPi, 20),
                      Ease(st.final_radians[2], st.current_angles[2] * TwoPi, 50) >>,
               !.mouse_x = Ease(st.mouse_x, st.raw_mouse_x, 10),
               !.mouse_y = Ease(st.mouse_y, st.raw_mouse_y, 10)]

\* mutant: the radius follows the eased wheel (chained filters)
UpdateControlsChained(c, st, delta_time) ==
    [c EXCEPT !.time = @ + FDiv(delta_time, 10),
              !.wheel_delta_ease = Ease(c.wheel_delta_ease, st.wheel_delta, 10),
              !.radius = Ease(c.radius, Ease(c.wheel_delta_ease, st.wheel_delta, 10), 20),
              !.offset_ease = Vec3(Ease(c.offset_ease.x, st.offset.x, 10),
                                   Ease(c.offset_ease.y, st.offset.y, 10),
                                   Ease(c.offset_ease.z, st.offset.z, 10))]

\* mutant: the radius step is scaled by delta_time
UpdateControlsScaled(c, st, delta_time) ==
    [c EXCEPT !.time = @ + FDiv(delta_time, 10),
              !.wheel_delta_ease = Ease(c.wheel_delta_ease, st.wheel_delta, 10),
              !.radius = @ + FDiv((st.wheel_delta - c.radius) * delta_time, 20 * Milli),
              !.offset_ease = Vec3(Ease(c.offset_ease.x, st.offset.x, 10),
                                   Ease(c.offset_ease.y, st.offset.y, 10),
                                   Ease(c.offset_ease.z, st.offset.z, 10))]

\* CameraControls::update, the controls' own fields
UpdateControls(c, st, delta_time) ==
    [c EXCEPT !.time = @ + FDiv(delta_time, 10),
              !.wheel_delta_ease = Ease(c.wheel_delta_ease, st.wheel_delta, 10),
              !.radius = Ease(c.radius, st.wheel_delta, 20),
              !.offset_ease = Vec3(Ease(c.offset_ease.x, st.offset.x, 10),
                                   Ease(c.offset_ease.y, st.offset.y, 10),
                                   Ease(c.offset_ease.z, st.offset.z, 10))]

\* CameraControls::update, the camera: the position is kept in the spherical form
\* the code evaluates, base + radius * (sin yaw cos pitch, sin pitch, cos yaw cos pitch)
UpdateCamera(cam, c, st) ==
    CameraLookAt(
        [cam EXCEPT !.position =
            [ base   |-> Vec3(c.target.x + c.offset_ease.x,
                              c.target.y + c.offset_ease.y,
                              c.target.z + c.offset_ease.z),
              yaw    |-> st.final_radians[1],
              pitch  |-> st.final_radians[2],
              radius |-> c.radius ]],
        c.target)

----------------------------------------------------------------------------
(* Matrix4 (math/matrix4.rs): data[n] of the code is element n + 1 of the tuple, *)
(* an entry counts 1/1000 like every other f32 of the model.  The angles used   *)
(* are whole quarter turns (rounded to 1/1000 radian), for which cos and sin    *)
(* take the exact values 0, 1 and -1; the f32 results of angle.cos() and        *)
(* angle.sin() differ from them by less than 1e-6.                              *)

\* the number of quarter turns in an angle >= 0 given in milli-radians
QuarterTurns(angle) == ((2 * angle + Pi \div 2) \div Pi) % 4

\* angle.cos() and angle.sin()
QuarterCos(angle) == <<1, 0, -1, 0>>[QuarterTurns(angle) + 1] * Milli
QuarterSin(angle) == <<0, 1, 0, -1>>[QuarterTurns(angle) + 1] * Milli

Matrix4Identity ==
    << Milli, 0, 0, 0,
       0, Milli, 0, 0,
       0, 0, Milli, 0,
       0, 0, 0, Milli >>

Matrix4Translation(x, y, z) ==
    << Milli, 0, 0, 0,
       0, Milli, 0, 0,
       0, 0, Milli, 0,
       x, y, z, Milli >>

Matrix4RotationX(angle) ==
    LET c == QuarterCos(angle)
        sn == QuarterSin(angle)
    IN  << Milli, 0, 0, 0,
           0, c, sn, 0,
           0, -sn, c, 0,
           0, 0, 0, Milli >>

Matrix4RotationY(angle) ==
    LET c == QuarterCos(angle)
        sn == QuarterSin(angle)
    IN  << c, 0, -sn, 0,
           0, Milli, 0, 0,
           sn, 0, c, 0,
           0, 0, 0, Milli >>

Matrix4RotationZ(angle) ==
    LET c == QuarterCos(angle)
        sn == QuarterSin(angle)
    IN  << c, sn, 0, 0,
           -sn, c, 0, 0,
           0, 0, Milli, 0,
           0, 0, 0, Milli >>

Matrix4Scale(x, y, z) ==
    << x, 0, 0, 0,
       0, y, 0, 0,
       0, 0, z, 0,
       0, 0, 0, Milli >>

\* Matrix4::multiply: result[i * 4 + j] += self.data[i * 4 + k] * other.data[k * 4 + j]
Matrix4Multiply(self, other) ==
    [n \in 1..16 |->
        LET i == (n - 1) \div 4
            j == (n - 1) % 4
        IN  FDiv(self[i * 4 + 1] * other[j + 1], Milli)
              + FDiv(self[i * 4 + 2] * other[4 + j + 1], Milli)
              + FDiv(self[i * 4 + 3] * other[8 + j + 1], Milli)
              + FDiv(self[i * 4 + 4] * other[12 + j + 1], Milli)]

----------------------------------------------------------------------------
(* Geometry, Mesh, Scene (box_geometry.rs, plane_geometry.rs, mesh.rs, scene.rs) *)

\* struct Vertex; the f32 components count 1/1000
Vertex(position, normal, uv, color) ==
    [position |-> position, normal |-> normal, uv |-> uv, color |-> color]

\* no factory was called yet
NoShape == [vertices |-> <<>>, indices |-> <<>>]

\* one face of BoxGeometry::new: four corners sharing a normal and a colour, with
\* the uv corners (0,1), (1,1), (1,0), (0,0)
BoxFace(p1, p2, p3, p4, normal, color) ==
    << Vertex(p1, normal, <<0, 1 * Milli>>, color),
       Vertex(p2, normal, <<1 * Milli, 1 * Milli>>, color),
       Vertex(p3, normal, <<1 * Milli, 0>>, color),
       Vertex(p4, normal, <<0, 0>>, color) >>

\* mutant: a box whose back face lists its corners in the order of the front face
BoxVerticesBackFlipped(width, height, depth) ==
    LET hw == FDiv(width, 2)
        hh == FDiv(height, 2)
        hd == FDiv(depth, 2)
    IN  BoxFace(<<-hw, -hh, hd>>, <<hw, -hh, hd>>, <<hw, hh, hd>>, <<-hw, hh, hd>>,
                <<0, 0, 1 * Milli>>, <<1 * Milli, 0, 0>>)
        \o BoxFace(<<-hw, -hh, -hd>>, <<hw, -hh, -hd>>, <<hw, hh, -hd>>, <<-hw, hh, -hd>>,
                   <<0, 0, -1 * Milli>>, <<0, 1 * Milli, 0>>)
        \o BoxFace(<<-hw, hh, hd>>, <<hw, hh, hd>>, <<hw, hh, -hd>>, <<-hw, hh, -hd>>,
                   <<0, 1 * Milli, 0>>, <<0, 0, 1 * Milli>>)
        \o BoxFace(<<-hw, -hh, -hd>>, <<hw, -hh, -hd>>, <<hw, -hh, hd>>, <<-hw, -hh, hd>>,
                   <<0, -1 * Milli, 0>>, <<1 * Milli, 1 * Milli, 0>>)
        \o BoxFace(<<hw, -hh, hd>>, <<hw, -hh, -hd>>, <<hw, hh, -hd>>, <<hw, hh, hd>>,
                   <<1 * Milli, 0, 0>>, <<1 * Milli, 0, 1 * Milli>>)
        \o BoxFace(<<-hw, -hh, -hd>>, <<-hw, -hh, hd>>, <<-hw, hh, hd>>, <<-hw, hh, -hd>>,
                   <<-1 * Milli, 0, 0>>, <<0, 1 * Milli, 1 * Milli>>)

\* BoxGeometry::new, the vertex list: front, back, top, bottom, right, left
BoxVertices(width, height, depth) ==
    LET hw == FDiv(width, 2)
        hh == FDiv(height, 2)
        hd == FDiv(depth, 2)
    IN  BoxFace(<<-hw, -hh, hd>>, <<hw, -hh, hd>>, <<hw, hh, hd>>, <<-hw, hh, hd>>,
                <<0, 0, 1 * Milli>>, <<1 * Milli, 0, 0>>)
        \o BoxFace(<<hw, -hh, -hd>>, <<-hw, -hh, -hd>>, <<-hw, hh, -hd>>, <<hw, hh, -hd>>,
                   <<0, 0, -1 * Milli>>, <<0, 1 * Milli, 0>>)
        \o BoxFace(<<-hw, hh, hd>>, <<hw, hh, hd>>, <<hw, hh, -hd>>, <<-hw, hh, -hd>>,
                   <<0, 1 * Milli, 0>>, <<0, 0, 1 * Milli>>)
        \o BoxFace(<<-hw, -hh, -hd>>, <<hw, -hh, -hd>>, <<hw, -hh, hd>>, <<-hw, -hh, hd>>,
                   <<0, -1 * Milli, 0>>, <<1 * Milli, 1 * Milli, 0>>)
        \o BoxFace(<<hw, -hh, hd>>, <<hw, -hh, -hd>>, <<hw, hh, -hd>>, <<hw, hh, hd>>,
                   <<1 * Milli, 0, 0>>, <<1 * Milli, 0, 1 * Milli>>)
        \o BoxFace(<<-hw, -hh, -hd>>, <<-hw, -hh, hd>>, <<-hw, hh, hd>>, <<-hw, hh, -hd>>,
                   <<-1 * Milli, 0, 0>>, <<0, 1 * Milli, 1 * Milli>>)

\* mutant: an index list whose last triangle names a vertex past the end
BoxIndicesPastEnd ==
    << 0, 1, 2, 0, 2, 3,
       4, 5, 6, 4, 6, 7,
       8, 9, 10, 8, 10, 11,
       12, 13, 14, 12, 14, 15,
       16, 17, 18, 16, 18, 19,
       20, 21, 22, 20, 22, 24 >>

\* BoxGeometry::new, the index list
BoxIndices ==
    << 0, 1, 2, 0, 2, 3,
       4, 5, 6, 4, 6, 7,
       8, 9, 10, 8, 10, 11,
       12, 13, 14, 12, 14, 15,
       16, 17, 18, 16, 18, 19,
       20, 21, 22, 20, 22, 23 >>

\* BoxGeometry::new(width, height, depth): the Geometry holding the two lists
BoxGeometryNew(width, height, depth) ==
    [vertices |-> BoxVertices(width, height, depth), indices |-> BoxIndices]

\* PlaneGeometry::new, the vertex list
PlaneVertices(width, height) ==
    LET hw == FDiv(width, 2)
        hh == FDiv(height, 2)
    IN  << Vertex(<<-hw, -hh, 0>>, <<0, 0, 1 * Milli>>, <<0, 1 * Milli>>,
                  <<1 * Milli, 1 * Milli, 1 * Milli>>),
           Vertex(<<hw, -hh, 0>>, <<0, 0, 1 * Milli>>, <<1 * Milli, 1 * Milli>>,
                  <<1 * Milli, 1 * Milli, 1 * Milli>>),
           Vertex(<<hw, hh, 0>>, <<0, 0, 1 * Milli>>, <<1 * Milli, 0>>,
                  <<1 * Milli, 1 * Milli, 1 * Milli>>),
           Vertex(<<-hw, hh, 0>>, <<0, 0, 1 * Milli>>, <<0, 0>>,
                  <<1 * Milli, 1 * Milli, 1 * Milli>>) >>

\* PlaneGeometry::new, the index list
PlaneIndices == <<0, 1, 2, 0, 2, 3>>

\* PlaneGeometry::new(width, height)
PlaneGeometryNew(width, height) ==
    [vertices |-> PlaneVertices(width, height), indices |-> PlaneIndices]

\* BoxGeometry::new and PlaneGeometry::new: the sizes of the vertex and index lists
\* and the largest index
BoxGeometry == [kind |-> "box", vertices |-> 24, indices |-> 36, max_index |-> 23]
PlaneGeometry == [kind |-> "plane", vertices |-> 4, indices |-> 6, max_index |-> 3]
Geometries == {BoxGeometry, PlaneGeometry}

\* the largest entry of an index list, -1 for the empty list
MaxIndex(indices) ==
    IF indices = <<>> THEN -1
    ELSE CHOOSE m \in {indices[i] : i \in DOMAIN indices} :
             \A i \in DOMAIN indices : indices[i] <= m

\* the failure of Geometry::new
GeometryError == [kind |-> "GeometryError"]

\* mutant: a constructor that validates nothing
GeometryNewUnchecked(vertices, indices) ==
    [kind |-> "built", vertices |-> vertices, indices |-> Len(indices),
     max_index |-> MaxIndex(indices)]

\* Geometry::new(vertices, indices) for a list of `vertices` Vertex values: the
\* geometry, or the failure when the index count is not a multiple of 3 or an
\* index is out of range
GeometryNew(vertices, indices) ==
    IF Len(indices) % 3 # 0 \/ \E i \in DOMAIN indices : indices[i] >= vertices
    THEN GeometryError
    ELSE [kind |-> "built", vertices |-> vertices, indices |-> Len(indices),
          max_index |-> MaxIndex(indices)]

\* Mesh::new; id is the identity of the Mesh value, a handle field holds 0 for None
\* and n > 0 for the n-th resource of that kind the device created for this mesh
MeshNew(id, geometry) ==
    [ id             |-> id,
      position       |-> Vec3(0, 0, 0),
      rotation       |-> Vec3(0, 0, 0),
      scale          |-> Vec3(1 * Milli, 1 * Milli, 1 * Milli),
      visible        |-> TRUE,
      geometry       |-> geometry,
      vertex_buffer  |-> 0,
      index_buffer   |-> 0,
      uniform_buffer |-> 0,
      bind_group     |-> 0 ]

\* mutant: create_buffers that makes the vertex buffer only
MeshCreateVertexOnly(mesh, made) ==
    [mesh EXCEPT !.vertex_buffer = made.vertex_buffer + 1]

\* Mesh::create_buffers; made = the buffers the device has created for this mesh
MeshCreateBuffers(mesh, made) ==
    [mesh EXCEPT !.vertex_buffer = made.vertex_buffer + 1,
                 !.index_buffer = made.index_buffer + 1]

\* Mesh::set_visible
MeshSetVisible(mesh, visible) == [mesh EXCEPT !.visible = visible]

\* Mesh::toggle_visible
MeshToggleVisible(mesh) == [mesh EXCEPT !.visible = ~mesh.visible]

\* Mesh::model_matrix
MeshModelMatrix(mesh) ==
    LET translation == Matrix4Translation(mesh.position.x, mesh.position.y, mesh.position.z)
        rotation_x == Matrix4RotationX(mesh.rotation.x)
        rotation_y == Matrix4RotationY(mesh.rotation.y)
        rotation_z == Matrix4RotationZ(mesh.rotation.z)
        scale == Matrix4Scale(mesh.scale.x, mesh.scale.y, mesh.scale.z)
    IN  Matrix4Multiply(
            Matrix4Multiply(
                Matrix4Multiply(
                    Matrix4Multiply(translation, rotation_y),
                    rotation_x),
                rotation_z),
            scale)

\* glam's Mat4 product a * b; a Mat4 is column-major like Matrix4.data, element
\* (row r, column c) at c * 4 + r
Mat4Mul(a, b) ==
    [n \in 1..16 |->
        LET c == (n - 1) \div 4
            r == (n - 1) % 4
        IN  FDiv(a[r + 1] * b[c * 4 + 1], Milli)
              + FDiv(a[4 + r + 1] * b[c * 4 + 2], Milli)
              + FDiv(a[8 + r + 1] * b[c * 4 + 3], Milli)
              + FDiv(a[12 + r + 1] * b[c * 4 + 4], Milli)]

\* Mesh::model_matrix_glam: Mat4::from_scale_rotation_translation with the
\* quaternion of EulerRot::XYZ, i.e. T * (Rx * Ry * Rz) * S; glam's translation,
\* axis rotations and scale have the float layout of Matrix4's
MeshModelMatrixGlam(mesh) ==
    LET translation == Matrix4Translation(mesh.position.x, mesh.position.y, mesh.position.z)
        rotation == Mat4Mul(Mat4Mul(Matrix4RotationX(mesh.rotation.x),
                                    Matrix4RotationY(mesh.rotation.y)),
                            Matrix4RotationZ(mesh.rotation.z))
        scale == Matrix4Scale(mesh.scale.x, mesh.scale.y, mesh.scale.z)
    IN  Mat4Mul(translation, Mat4Mul(rotation, scale))

\* Scene::new
SceneNew == <<>>

\* mutant: add puts the mesh at the front
SceneAddFront(children, mesh) == <<mesh>> \o children

\* Scene::add
SceneAddMesh(children, mesh) == Append(children, mesh)

\* mutant: Vec::swap_remove, the last element takes the place of the removed one
VecSwapRemove(children, index) ==
    [i \in 1..(Len(children) - 1) |->
        IF i = index + 1 THEN children[Len(children)] ELSE children[i]]

\* Vec::remove
VecRemove(children, index) ==
    [i \in 1..(Len(children) - 1) |->
        IF i < index + 1 THEN children[i] ELSE children[i + 1]]

\* Scene::remove (index counts from 0): the scene left and the mesh returned
SceneRemoveMesh(children, index) ==
    IF index < Len(children)
    THEN [children |-> VecRemove(children, index),
          result   |-> [some |-> TRUE, mesh |-> children[index + 1]]]
    ELSE [children |-> children,
          result   |-> [some |-> FALSE, mesh |-> MeshNew(0, BoxGeometry)]]

\* mutant: a clear that drops nothing
SceneClearNothing(children) == children

\* Scene::clear
SceneClearAll(children) == <<>>

\* Scene::len
SceneLen(children) == Len(children)

----------------------------------------------------------------------------
(* Renderer (renderer.rs) and the device it drives *)

NoneMade == [vertex_buffer |-> 0, index_buffer |-> 0, uniform_buffer |-> 0, bind_group |-> 0]

\* The device side: how many resources of each kind were created for each mesh,
\* how many meshes and depth textures were ever made, and the commands of the
\* last render call in the order they were issued, with its result.
GpuNew(n) ==
    [ made     |-> [id \in 1..n |-> NoneMade],
      meshes   |-> 0,
      textures |-> 1,
      frame    |-> <<>>,
      result   |-> "none" ]

\* Renderer::new: surface configuration and depth texture at the canvas size
RendererNew(width, height) ==
    [ config        |-> [width |-> width, height |-> height],
      configured    |-> <<width, height>>,
      depth_texture |-> [id |-> 1, width |-> width, height |-> height],
      depth_view    |-> 1,
      clear_color   |-> <<100, 100, 150, 1000>> ]

\* Renderer::set_clear_color
RendererSetClearColor(r, color) == [r EXCEPT !.clear_color = color]

\* mutant: set_size guarded by "width > 0 || height > 0"
RendererSetSizeEither(r, width, height, texture) ==
    IF width > 0 \/ height > 0
    THEN [r EXCEPT !.config.width = width,
                   !.config.height = height,
                   !.configured = <<width, height>>,
                   !.depth_texture = [id |-> texture, width |-> width, height |-> height],
                   !.depth_view = texture]
    ELSE r

\* Renderer::set_size; texture = the id of the next texture the device creates
RendererSetSize(r, width, height, texture) ==
    IF width > 0 /\ height > 0
    THEN [r EXCEPT !.config.width = width,
                   !.config.height = height,
                   !.configured = <<width, height>>,
                   !.depth_texture = [id |-> texture, width |-> width, height |-> height],
                   !.depth_view = texture]
    ELSE r

\* mutant: the vertex and index buffers are created on every render
EnsureVertexIndexAlways(mesh, made) == MeshCreateBuffers(mesh, made)

\* Renderer::render, first loop, one mesh: "if mesh.vertex_buffer.is_none()"
EnsureVertexIndex(mesh, made) ==
    IF mesh.vertex_buffer = 0 THEN MeshCreateBuffers(mesh, made) ELSE mesh

\* Renderer::render, first loop, one mesh: "if mesh.uniform_buffer.is_none()"
EnsureUniform(mesh, made) ==
    IF mesh.uniform_buffer = 0
    THEN [mesh EXCEPT !.uniform_buffer = made.uniform_buffer + 1,
                      !.bind_group = made.bind_group + 1]
    ELSE mesh

\* Renderer::render, first loop, one mesh
EnsureBuffers(mesh, made) == EnsureUniform(EnsureVertexIndex(mesh, made), made)

\* Renderer::render, first loop over scene.children
CreateMissing(children, made) ==
    [i \in 1..Len(children) |-> EnsureBuffers(children[i], made[children[i].id])]

\* the device's creation counts once before was turned into after: every handle
\* that differs is a resource the device created
MadeAfter(before, after, made) ==
    [ vertex_buffer  |-> made.vertex_buffer
                           + (IF after.vertex_buffer # before.vertex_buffer THEN 1 ELSE 0),
      index_buffer   |-> made.index_buffer
                           + (IF after.index_buffer # before.index_buffer THEN 1 ELSE 0),
      uniform_buffer |-> made.uniform_buffer
                           + (IF after.uniform_buffer # before.uniform_buffer THEN 1 ELSE 0),
      bind_group     |-> made.bind_group
                           + (IF after.bind_group # before.bind_group THEN 1 ELSE 0) ]

MadeAfterAll(before, after, made) ==
    [id \in DOMAIN made |->
        IF \E i \in 1..Len(before) : before[i].id = id
        THEN LET i == CHOOSE k \in 1..Len(before) : before[k].id = id
             IN  MadeAfter(before[i], after[i], made[id])
        ELSE made[id]]

Command(op, mesh, count) == [op |-> op, mesh |-> mesh, count |-> count]

\* Renderer::render, "Update uniform buffers": does this mesh get a write_buffer
WritesUniform(mesh) == mesh.visible /\ mesh.uniform_buffer # 0

\* mutant: the draw loop without the visibility check
DrawsInvisible(mesh) ==
    /\ mesh.vertex_buffer # 0
    /\ mesh.index_buffer # 0
    /\ mesh.bind_group # 0

\* Renderer::render, "Render each mesh": does this mesh get a draw_indexed
Draws(mesh) ==
    /\ mesh.vertex_buffer # 0
    /\ mesh.index_buffer # 0
    /\ mesh.bind_group # 0
    /\ mesh.visible

RECURSIVE UniformWrites(_)
UniformWrites(children) ==
    IF children = <<>> THEN <<>>
    ELSE (IF WritesUniform(Head(children))
          THEN <<Command("write_buffer", Head(children).id, 128)>>
          ELSE <<>>) \o UniformWrites(Tail(children))

RECURSIVE DrawCalls(_)
DrawCalls(children) ==
    IF children = <<>> THEN <<>>
    ELSE (IF Draws(Head(children))
          THEN <<Command("draw_indexed", Head(children).id, Head(children).geometry.indices)>>
          ELSE <<>>) \o DrawCalls(Tail(children))

\* mutant: the uniform writes queued after the submission
FrameCommandsLateWrites(children) ==
    <<Command("begin_render_pass", 0, 0)>>
      \o DrawCalls(children)
      \o <<Command("submit", 0, 0)>>
      \o UniformWrites(children)
      \o <<Command("present", 0, 0)>>

\* Renderer::render after the surface texture was acquired: the commands in order
FrameCommands(children) ==
    UniformWrites(children)
      \o <<Command("begin_render_pass", 0, 0)>>
      \o DrawCalls(children)
      \o <<Command("submit", 0, 0), Command("present", 0, 0)>>

\* Renderer::render; acquired = whether surface.get_current_texture() succeeded
RendererRender(acquired) ==
    /\ scene' = CreateMissing(scene, gpu.made)
    /\ gpu' = [gpu EXCEPT !.made = MadeAfterAll(scene, scene', gpu.made),
                          !.frame = IF acquired THEN FrameCommands(scene') ELSE <<>>,
                          !.result = IF acquired THEN "ok" ELSE "err"]

----------------------------------------------------------------------------
(* Operations of the controller *)

TouchLists == UNION {[1..n -> Points] : n \in 0..MaxTouches}

YawOk(st) == Abs(st.current_angles[1]) <= MaxYaw * 100
WheelOk(st) == Abs(st.wheel_delta - radius0) <= MaxWheel * 10 * Milli

Rest == <<scene, renderer, gpu, time, matrix, shape, cell>>

Wheel(delta_y, p) ==
    /\ s' = OnWheel(s, delta_y, p[1], p[2])
    /\ last_op' = "Wheel"
    /\ UNCHANGED <<cc, camera, touching, Rest>>

PointerDown(p) ==
    /\ s' = OnMouseDown(s, p[1], p[2])
    /\ last_op' = "PointerDown"
    /\ UNCHANGED <<cc, camera, touching, Rest>>

PointerUp(p) ==
    /\ s' = OnMouseUp(s, p[1], p[2])
    /\ last_op' = "PointerUp"
    /\ UNCHANGED <<cc, camera, touching, Rest>>

PointerMove(p) ==
    /\ YawOk(OnMouseMove(s, p[1], p[2]))
    /\ s' = OnMouseMove(s, p[1], p[2])
    /\ last_op' = "PointerMove"
    /\ UNCHANGED <<cc, camera, touching, Rest>>

TouchStart(touches) ==
    /\ s' = OnTouchStart(s, touches)
    /\ last_op' = "TouchStart"
    /\ UNCHANGED <<cc, camera, Rest>>

TouchEnd(touches) ==
    /\ s' = OnTouchEnd(s, touches)
    /\ last_op' = "TouchEnd"
    /\ UNCHANGED <<cc, camera, Rest>>

TouchMove(touches) ==
    /\ YawOk(OnTouchMove(s, touches))
    /\ s' = OnTouchMove(s, touches)
    /\ last_op' = "TouchMove"
    /\ UNCHANGED <<cc, camera, Rest>>

SetViewport(wh) ==
    /\ s' = SetWindowSize(s, wh[1], wh[2])
    /\ last_op' = "SetViewport"
    /\ UNCHANGED <<cc, camera, touching, Rest>>

SetEnabled(enabled) ==
    /\ s' = SetEnabledState(s, enabled)
    /\ last_op' = "SetEnabled"
    /\ UNCHANGED <<cc, camera, touching, Rest>>

\* CameraControls::update
ControlsUpdate(delta_time) ==
    /\ s' = UpdateState(s)
    /\ cc' = UpdateControls(cc, s, delta_time)
    /\ camera' = UpdateCamera(camera, cc', s')

Update(delta_time) ==
    /\ ControlsUpdate(delta_time)
    /\ last_op' = "Update"
    /\ UNCHANGED <<touching, Rest>>

----------------------------------------------------------------------------
(* The controller on its own: CameraControls::new as Engine::new calls it *)

InitControls ==
    /\ \E wh \in ViewportSizes : s = StateNew(radius0, wh[1], wh[2])
    /\ cc = ControlsNew(Vec3(0, 0, 0), radius0)
    /\ camera = CameraNew(75 * Milli, 100, 1000 * Milli, Ratio(800, 600))

Init ==
    /\ InitControls
    /\ scene = SceneNew
    /\ renderer = RendererNew(canvas_size[1], canvas_size[2])
    /\ gpu = GpuNew(MaxMeshes)
    /\ time = 0
    /\ touching = <<>>
    /\ matrix = Matrix4Identity
    /\ shape = NoShape
    /\ cell = CellNew
    /\ last_op = "new"

\* The runs of this specification are a burst of input followed by frame ticks:
\* the inputs arrive before the first update.
InputPhase == cc.time = 0

Next ==
    \/ \E d \in WheelDeltas, p \in Points :
          InputPhase /\ WheelOk(OnWheel(s, d, p[1], p[2])) /\ Wheel(d, p)
    \/ \E p \in Points : InputPhase /\ PointerDown(p)
    \/ \E p \in Points : InputPhase /\ PointerUp(p)
    \/ \E p \in Points : InputPhase /\ PointerMove(p)
    \/ \E t \in TouchLists : InputPhase /\ TouchStart(t) /\ UNCHANGED touching
    \/ \E t \in TouchLists : InputPhase /\ TouchEnd(t) /\ UNCHANGED touching
    \/ \E t \in TouchLists : InputPhase /\ TouchMove(t) /\ UNCHANGED touching
    \/ \E wh \in ViewportSizes : InputPhase /\ SetViewport(wh)
    \/ \E e \in BOOLEAN : InputPhase /\ SetEnabled(e)
    \/ \E dt \in DeltaTimes : cc.time < MaxUpdates * 100 /\ Update(dt)

Spec == Init /\ [][Next]_vars

----------------------------------------------------------------------------
(* Convergence runs: a drag and wheel notches, then update(1.0) calls only *)

InitConverge ==
    /\ s = StateNew(radius0, 1000, 2000)
    /\ cc = ControlsNew(Vec3(0, 0, 0), radius0)
    /\ camera = CameraNew(75 * Milli, 100, 1000 * Milli, Ratio(800, 600))
    /\ scene = SceneNew
    /\ renderer = RendererNew(canvas_size[1], canvas_size[2])
    /\ gpu = GpuNew(MaxMeshes)
    /\ time = 0
    /\ touching = <<>>
    /\ matrix = Matrix4Identity
    /\ shape = NoShape
    /\ cell = CellNew
    /\ last_op = "new"

NextConverge ==
    \/ \E d \in WheelDeltas :
          InputPhase /\ WheelOk(OnWheel(s, d, 0, 0)) /\ Wheel(d, <<0, 0>>)
    \/ \E p \in Points : InputPhase /\ PointerDown(p)
    \/ \E p \in Points : InputPhase /\ PointerMove(p)
    \/ cc.time < (ConvergeCalls + 2) * 100 /\ Update(1 * Milli)

SpecConverge == InitConverge /\ [][NextConverge]_vars

----------------------------------------------------------------------------
(* Zoom runs: wheel notches and set_enabled, then update(1.0) calls only;      *)
(* set_target at any time                                                     *)

ZoomOk(st) == Abs(st.wheel_delta - radius0) <= MaxNotches * 10 * Milli

\* targets given to set_target
Targets == {Vec3(0, 0, 0), Vec3(1 * Milli, 2 * Milli, 3 * Milli)}

SetTarget(target) ==
    /\ cc' = SetTargetControls(cc, target)
    /\ last_op' = "SetTarget"
    /\ UNCHANGED <<s, camera, touching, Rest>>

NextZoom ==
    \/ \E d \in WheelDeltas :
          InputPhase /\ ZoomOk(OnWheel(s, d, 0, 0)) /\ Wheel(d, <<0, 0>>)
    \/ \E e \in BOOLEAN : InputPhase /\ SetEnabled(e)
    \/ \E v \in Targets : SetTarget(v)
    \/ cc.time < ZoomCalls * 100 /\ Update(1 * Milli)

SpecZoom == InitConverge /\ [][NextZoom]_vars

----------------------------------------------------------------------------
(* Multi-touch runs: the browser reports each touch point with its identifier; *)
(* a touch is <<page_x, page_y, identifier>> and the handlers read the first two *)

\* Touch.identifier of the touch points
Fingers == {1, 2}

FingerTouches == {<<p[1], p[2], f>> : p \in Points, f \in Fingers}

TouchIds(touches) == {touches[i][3] : i \in DOMAIN touches}

\* the identifiers of the touch points on the surface
OnSurface == {touching[i] : i \in DOMAIN touching}

\* event.changed_touches() of a touch event: one entry per touch point that changed
ChangedTouches ==
    {t \in UNION {[1..n -> FingerTouches] : n \in 1..MaxTouches} :
        Cardinality(TouchIds(t)) = Len(t)}

\* touchstart: the touch points of the event were not on the surface before
FingerDown(touches) ==
    /\ TouchIds(touches) \cap OnSurface = {}
    /\ TouchStart(touches)
    /\ touching' = touching \o [i \in 1..Len(touches) |-> touches[i][3]]

\* touchmove: the touch points of the event are on the surface and stay there
FingerMove(touches) ==
    /\ TouchIds(touches) \subseteq OnSurface
    /\ TouchMove(touches)
    /\ UNCHANGED touching

\* touchend: the touch points of the event leave the surface
FingerUp(touches) ==
    /\ TouchIds(touches) \subseteq OnSurface
    /\ TouchEnd(touches)
    /\ LET Stays(f) == f \notin TouchIds(touches)
       IN  touching' = SelectSeq(touching, Stays)

NextTouch ==
    \/ \E t \in ChangedTouches : FingerDown(t)
    \/ \E t \in ChangedTouches : FingerMove(t)
    \/ \E t \in ChangedTouches : FingerUp(t)

SpecTouch == Init /\ [][NextTouch]_vars

----------------------------------------------------------------------------
(* Scene and Renderer used directly: Scene::new, Renderer::new, then any calls *)

Controls == <<s, cc, camera>>

SceneAdd(geometry) ==
    /\ gpu.meshes < MaxMeshes
    /\ scene' = SceneAddMesh(scene, MeshNew(gpu.meshes + 1, geometry))
    /\ gpu' = [gpu EXCEPT !.meshes = @ + 1]
    /\ last_op' = "Add"
    /\ UNCHANGED <<Controls, touching, matrix, shape, cell, renderer, time>>

SceneRemove(index) ==
    /\ scene' = SceneRemoveMesh(scene, index).children
    /\ last_op' = "Remove"
    /\ UNCHANGED <<Controls, touching, matrix, shape, cell, renderer, gpu, time>>

SceneClear ==
    /\ scene' = SceneClearAll(scene)
    /\ last_op' = "Clear"
    /\ UNCHANGED <<Controls, touching, matrix, shape, cell, renderer, gpu, time>>

SetVisible(i, visible) ==
    /\ i \in 1..Len(scene)
    /\ scene' = [scene EXCEPT ![i] = MeshSetVisible(@, visible)]
    /\ last_op' = "SetVisible"
    /\ UNCHANGED <<Controls, touching, matrix, shape, cell, renderer, gpu, time>>

ToggleVisible(i) ==
    /\ i \in 1..Len(scene)
    /\ scene' = [scene EXCEPT ![i] = MeshToggleVisible(@)]
    /\ last_op' = "ToggleVisible"
    /\ UNCHANGED <<Controls, touching, matrix, shape, cell, renderer, gpu, time>>

Render(acquired) ==
    /\ RendererRender(acquired)
    /\ last_op' = "Render"
    /\ UNCHANGED <<Controls, touching, matrix, shape, cell, renderer, time>>

Resize(wh) ==
    /\ (wh[1] > 0 /\ wh[2] > 0) => gpu.textures <= MaxResizes
    /\ renderer' = RendererSetSize(renderer, wh[1], wh[2], gpu.textures + 1)
    /\ gpu' = [gpu EXCEPT !.textures = IF wh[1] > 0 /\ wh[2] > 0 THEN @ + 1 ELSE @]
    /\ last_op' = "Resize"
    /\ UNCHANGED <<Controls, touching, matrix, shape, cell, scene, time>>

InitRender ==
    /\ s = StateNew(radius0, 800, 600)
    /\ cc = ControlsNew(Vec3(0, 0, 0), radius0)
    /\ camera = CameraNew(75 * Milli, 100, 1000 * Milli, Ratio(canvas_size[1], canvas_size[2]))
    /\ scene = SceneNew
    /\ renderer = RendererNew(canvas_size[1], canvas_size[2])
    /\ gpu = GpuNew(MaxMeshes)
    /\ time = 0
    /\ touching = <<>>
    /\ matrix = Matrix4Identity
    /\ shape = NoShape
    /\ cell = CellNew
    /\ last_op = "new"

NextRender ==
    \/ \E g \in Geometries : SceneAdd(g)
    \/ \E i \in 0..MaxMeshes : SceneRemove(i)
    \/ SceneClear
    \/ \E i \in 1..MaxMeshes, v \in BOOLEAN : SetVisible(i, v)
    \/ \E i \in 1..MaxMeshes : ToggleVisible(i)
    \/ \E a \in BOOLEAN : Render(a)
    \/ \E wh \in Sizes : Resize(wh)

SpecRender == InitRender /\ [][NextRender]_vars

----------------------------------------------------------------------------
(* Matrix runs: one mesh whose public position, rotation and scale fields are   *)
(* assigned whole values and quarter turns, and Mesh::model_matrix calls        *)

Positions == {Vec3(0, 0, 0), Vec3(1 * Milli, 2 * Milli, 3 * Milli)}
Scales == {Vec3(1 * Milli, 1 * Milli, 1 * Milli), Vec3(2 * Milli, 3 * Milli, 4 * Milli)}
\* q quarter turns in milli-radians
Angles == {(q * Pi + 1) \div 2 : q \in 0..MaxQuarters}
Rotations == {Vec3(x, y, z) : x \in Angles, y \in Angles, z \in Angles}

\* mesh.position = v
SetPosition(v) ==
    /\ scene' = [scene EXCEPT ![1].position = v]
    /\ last_op' = "set_position"
    /\ UNCHANGED <<Controls, touching, matrix, shape, cell, renderer, gpu, time>>

\* mesh.rotation = v
SetRotation(v) ==
    /\ scene' = [scene EXCEPT ![1].rotation = v]
    /\ last_op' = "set_rotation"
    /\ UNCHANGED <<Controls, touching, matrix, shape, cell, renderer, gpu, time>>

\* mesh.scale = v
SetScale(v) ==
    /\ scene' = [scene EXCEPT ![1].scale = v]
    /\ last_op' = "set_scale"
    /\ UNCHANGED <<Controls, touching, matrix, shape, cell, renderer, gpu, time>>

\* mesh.model_matrix()
ModelMatrix ==
    /\ matrix' = MeshModelMatrix(scene[1])
    /\ last_op' = "model_matrix"
    /\ UNCHANGED <<Controls, touching, shape, cell, scene, renderer, gpu, time>>

InitMatrix ==
    /\ s = StateNew(radius0, 800, 600)
    /\ cc = ControlsNew(Vec3(0, 0, 0), radius0)
    /\ camera = CameraNew(75 * Milli, 100, 1000 * Milli, Ratio(canvas_size[1], canvas_size[2]))
    /\ scene = <<MeshNew(1, BoxGeometry)>>
    /\ renderer = RendererNew(canvas_size[1], canvas_size[2])
    /\ gpu = GpuNew(MaxMeshes)
    /\ time = 0
    /\ touching = <<>>
    /\ matrix = Matrix4Identity
    /\ shape = NoShape
    /\ cell = CellNew
    /\ last_op = "new"

NextMatrix ==
    \/ \E v \in Positions : SetPosition(v)
    \/ \E v \in Rotations : SetRotation(v)
    \/ \E v \in Scales : SetScale(v)
    \/ ModelMatrix

SpecMatrix == InitMatrix /\ [][NextMatrix]_vars

----------------------------------------------------------------------------
(* Hand-built geometry: the library user constructs a Geometry from vertex and  *)
(* index lists, wraps it in a Mesh, adds it to the scene and renders            *)

VertexCounts == {3, 4}
IndexLists ==
    { <<>>, <<0, 1>>, <<0, 1, 2>>, <<2, 1, 0, 0>>, <<0, 1, 4>>, <<0, 1, 2, 0, 2, 3>> }

\* scene.add(Mesh::new(Geometry::new(vertices, indices))): a failed construction
\* yields no geometry, so no mesh is built and nothing is added
BuildMesh(vertices, indices) ==
    LET geometry == GeometryNew(vertices, indices)
    IN  IF geometry.kind = "GeometryError"
        THEN /\ last_op' = "GeometryError"
             /\ UNCHANGED <<Controls, touching, matrix, shape, cell, scene, renderer, gpu, time>>
        ELSE SceneAdd(geometry)

NextGeometry ==
    \/ \E n \in VertexCounts, l \in IndexLists : BuildMesh(n, l)
    \/ \E a \in BOOLEAN : Render(a)

SpecGeometry == InitRender /\ [][NextGeometry]_vars

----------------------------------------------------------------------------
(* Factory runs: BoxGeometry::new and PlaneGeometry::new called with any         *)
(* dimensions                                                                   *)

Dims == {-2 * Milli, 0} \cup {k * Milli : k \in 1..MaxDim}

BoxNew(width, height, depth) ==
    /\ shape' = BoxGeometryNew(width, height, depth)
    /\ last_op' = "BoxGeometry::new"
    /\ UNCHANGED <<Controls, touching, matrix, cell, scene, renderer, gpu, time>>

PlaneNew(width, height) ==
    /\ shape' = PlaneGeometryNew(width, height)
    /\ last_op' = "PlaneGeometry::new"
    /\ UNCHANGED <<Controls, touching, matrix, cell, scene, renderer, gpu, time>>

NextFactory ==
    \/ \E w \in Dims, h \in Dims, d \in Dims : BoxNew(w, h, d)
    \/ \E w \in Dims, h \in Dims : PlaneNew(w, h)

SpecFactory == InitRender /\ [][NextFactory]_vars

----------------------------------------------------------------------------
(* Engine (lib.rs) *)

grid_size == 10

\* f32::sin in fixed point (milli-radians to 1/1000): Bhaskara's approximation on
\* a half period, |error| < 0.002
HalfSine(x) ==
    FDiv(16 * x * (Pi - x), (5 * Pi * Pi - 4 * x * (Pi - x)) \div Milli)

Sin(a) ==
    LET r == a % (2 * Pi)
    IN  IF r <= Pi THEN HalfSine(r) ELSE -HalfSine(r - Pi)

\* Engine::init_scene: the mesh pushed at step (i, j) of the double loop
GridMesh(i, j) ==
    [MeshNew(i * grid_size + j + 1, BoxGeometry) EXCEPT
        !.position = Vec3((i * Milli - FDiv(grid_size * Milli, 2)) * 2,
                          j * Milli - FDiv(grid_size * Milli, 2),
                          0)]

\* Engine::init_scene: the scene after the double loop
InitScene ==
    [k \in 1..(grid_size * grid_size) |->
        GridMesh((k - 1) \div grid_size, (k - 1) % grid_size)]

\* Engine::update, the wave of the mesh at index i (from 0) at Engine.time t
Wave(i, t) ==
    LET x_idx == ((i % grid_size) * 2) * Milli
        y_idx == (i \div grid_size) * Milli
    IN  Sin(FDiv((x_idx + y_idx) * 50, Milli) + t * 2)

\* Engine::update, the loop body for the mesh at index i (from 0)
Animate(mesh, i, t, delta_time) ==
    [mesh EXCEPT !.position.z = Wave(i, t) * 15,
                 !.rotation.y = @ + FDiv(20 * delta_time, Milli),
                 !.rotation.x = FDiv(Wave(i, t) * 300, Milli)]

\* Engine::update
EngineUpdate(delta_time) ==
    /\ ControlsUpdate(delta_time)
    /\ scene' = [k \in 1..Len(scene) |-> Animate(scene[k], k - 1, time, delta_time)]
    /\ last_op' = "update"
    /\ UNCHANGED <<renderer, gpu, time, touching, matrix, shape, cell>>

\* Engine::render
EngineRender(acquired) ==
    /\ time < MaxFrames * 16
    /\ time' = time + 16
    /\ RendererRender(acquired)
    /\ last_op' = "render"
    /\ UNCHANGED <<Controls, touching, matrix, shape, cell, renderer>>

\* Engine::set_size
EngineSetSize(width, height) ==
    /\ (width > 0 /\ height > 0) => gpu.textures <= MaxResizes
    /\ renderer' = RendererSetSize(renderer, width, height, gpu.textures + 1)
    /\ gpu' = [gpu EXCEPT !.textures = IF width > 0 /\ height > 0 THEN @ + 1 ELSE @]
    /\ camera' = CameraUpdateAspect(camera, Ratio(width, height))
    /\ s' = SetWindowSize(s, width, height)
    /\ last_op' = "resize"
    /\ UNCHANGED <<cc, scene, time, touching, matrix, shape, cell>>

\* Engine::clear_scene
EngineClearScene ==
    /\ scene' = SceneClearAll(scene)
    /\ last_op' = "clear_scene"
    /\ UNCHANGED <<Controls, touching, matrix, shape, cell, renderer, gpu, time>>

\* Engine::mesh_count
mesh_count == SceneLen(scene)

\* Engine::new(canvas_id, width, height), with init_scene
InitEngine ==
    /\ s = StateNew(radius0, 800, 600)
    /\ cc = ControlsNew(Vec3(0, 0, 0), radius0)
    /\ camera = CameraNew(75 * Milli, 100, 1000 * Milli, Ratio(canvas_size[1], canvas_size[2]))
    /\ scene = InitScene
    /\ renderer = RendererSetClearColor(RendererNew(canvas_size[1], canvas_size[2]),
                                        <<0, 0, 0, 1 * Milli>>)
    /\ gpu = GpuNew(grid_size * grid_size)
    /\ time = 0
    /\ touching = <<>>
    /\ matrix = Matrix4Identity
    /\ shape = NoShape
    /\ cell = CellNew
    /\ last_op = "new"

NextEngine ==
    \/ \E dt \in DeltaTimes : cc.time < MaxUpdates * 100 /\ EngineUpdate(dt)
    \/ \E a \in BOOLEAN : EngineRender(a)
    \/ \E wh \in Sizes : EngineSetSize(wh[1], wh[2])
    \/ EngineClearScene

SpecEngine == InitEngine /\ [][NextEngine]_vars

----------------------------------------------------------------------------
(* Borrow runs: the closures registered by setup_events, the controller's        *)
(* methods and Renderer::render, each split into its entry, its borrow_mut and  *)
(* its body.  The wasm module runs on one thread and none of these calls yields *)
(* to the event loop, so a call is entered only when no other is on the stack.  *)
(* Touch events carry one changed touch.                                        *)

BorrowCalls ==
    { "wheel", "mousedown", "mouseup", "mousemove", "touchstart", "touchend",
      "touchmove", "set_window_size", "set_enabled", "update" }

\* what the event or the caller passes
CallInputs ==
    [ delta_y : {100}, p : Points, size : {<<1000, 1000>>}, enabled : BOOLEAN,
      delta_time : {1 * Milli}, acquired : BOOLEAN ]

\* the body of a closure or setter on the borrowed state
CallEffect(call, st, in) ==
    CASE call = "wheel"           -> OnWheel(st, in.delta_y, in.p[1], in.p[2])
      [] call = "mousedown"       -> OnMouseDown(st, in.p[1], in.p[2])
      [] call = "mouseup"         -> OnMouseUp(st, in.p[1], in.p[2])
      [] call = "mousemove"       -> OnMouseMove(st, in.p[1], in.p[2])
      [] call = "touchstart"      -> OnTouchStart(st, <<in.p>>)
      [] call = "touchend"        -> OnTouchEnd(st, <<in.p>>)
      [] call = "touchmove"       -> OnTouchMove(st, <<in.p>>)
      [] call = "set_window_size" -> SetWindowSize(st, in.size[1], in.size[2])
      [] call = "set_enabled"     -> SetEnabledState(st, in.enabled)

\* the event loop or the page's script calls into the module
Enter(call) ==
    /\ cell.call = "none"
    /\ ~cell.panicked
    /\ cell' = [cell EXCEPT !.call = call, !.calls = @ + 1]
    /\ UNCHANGED <<Controls, scene, renderer, gpu, time, touching, matrix, shape, last_op>>

\* let mut s = state.borrow_mut()
Acquire ==
    /\ cell.call \in BorrowCalls
    /\ ~cell.borrowed
    /\ ~cell.panicked
    /\ cell' = BorrowMut(cell)
    /\ UNCHANGED <<Controls, scene, renderer, gpu, time, touching, matrix, shape, last_op>>

\* the rest of the call, up to its return
Run(in) ==
    /\ cell.call # "none"
    /\ ~cell.panicked
    /\ cell.call \in BorrowCalls => cell.borrowed
    /\ cell' = Return(cell)
    /\ last_op' = cell.call
    /\ IF cell.call = "update"
       THEN ControlsUpdate(in.delta_time) /\ UNCHANGED <<scene, gpu>>
       ELSE IF cell.call = "render"
       THEN RendererRender(in.acquired) /\ UNCHANGED Controls
       ELSE s' = CallEffect(cell.call, s, in) /\ UNCHANGED <<cc, camera, scene, gpu>>
    /\ UNCHANGED <<renderer, time, touching, matrix, shape>>

NextBorrow ==
    \/ \E call \in BorrowCalls \cup {"render"} : cell.calls < MaxCalls /\ Enter(call)
    \/ Acquire
    \/ \E in \in CallInputs : Run(in)

SpecBorrow == Init /\ [][NextBorrow]_vars

----------------------------------------------------------------------------
(* Claims about the controller's inputs *)

MoveOps == {"PointerMove", "TouchMove"}
EventOps == {"PointerDown", "PointerMove", "PointerUp", "Wheel",
             "TouchStart", "TouchMove", "TouchEnd"}

\* a move event, by mouse or by a single touch, at point p
MoveTo(p) == PointerMove(p) \/ TouchMove(<<p>>)

\* the pitch a drag to page_y asks for, before the limits (milli-turns)
RawPitch(page_y) ==
    s.prev_angles[2] - FDiv((s.down_point[2] - page_y) * Milli, s.window_height)

\* C1: in every reachable state (positive viewport dimensions)
\* current_angles.pitch lies in [-0.2, 0.2] turns, whatever the drag magnitude.
C1_PitchClamp ==
    /\ s.current_angles[2] >= -200
    /\ s.current_angles[2] <= 200

\* C1 witness: a drag whose raw pitch overshot the upper limit by more than the
\* whole range has been clamped to 0.2.
C1_Witness ==
    /\ last_op \in MoveOps
    /\ s.down
    /\ s.current_angles[2] = 200
    /\ s.prev_angles[2] - s.displacement[2] > 600

\* C2 as stated: while enabled = false every input other than SetEnabled,
\* SetViewport included, leaves the whole controller state unchanged.
C2_Original ==
    [][(~s.enabled /\ last_op' \in (EventOps \cup {"SetViewport"}))
          => UNCHANGED ctl]_vars

\* C2 amended: while enabled = false the pointer, wheel and touch events leave the
\* whole controller state unchanged; SetViewport is not gated by enabled: it still
\* sets the viewport dimensions and changes nothing else.
C2_DisabledEventsNoOp ==
    /\ [][(~s.enabled /\ last_op' \in EventOps) => UNCHANGED ctl]_vars
    /\ [][\A wh \in ViewportSizes :
            (~s.enabled /\ last_op' = "SetViewport" /\ SetViewport(wh))
               => /\ s'.window_width = wh[1]
                  /\ s'.window_height = wh[2]
                  /\ s' = [s EXCEPT !.window_width = wh[1], !.window_height = wh[2]]
                  /\ UNCHANGED <<cc, camera>>]_vars

\* C2 witness: a move event arrived during a drag while the controls were disabled.
C2_Witness ==
    /\ ~s.enabled
    /\ s.down
    /\ last_op = "PointerMove"

\* C10, first half: a move during a drag whose raw pitch is beyond a limit sets
\* current and prev pitch to that limit and down_point.y to the current y.
C10_Rebase ==
    [][\A p \in Points :
        (s.enabled /\ s.down /\ last_op' \in MoveOps /\ MoveTo(p))
          => /\ RawPitch(p[2]) > 200
                  => /\ s'.current_angles[2] = 200
                     /\ s'.prev_angles[2] = 200
                     /\ s'.down_point[2] = p[2]
             /\ RawPitch(p[2]) < -200
                  => /\ s'.current_angles[2] = -200
                     /\ s'.prev_angles[2] = -200
                     /\ s'.down_point[2] = p[2]]_vars

\* the state a clamping move leaves: pitch and prev pitch at limit b
AtLimit(b) ==
    /\ last_op \in MoveOps
    /\ s.enabled
    /\ s.down
    /\ s.current_angles[2] = b
    /\ s.prev_angles[2] = b

\* pixels by which page_y lies back from the rebased down_point, for the upper
\* limit (pitch grows with y) and for the lower one
BackFromUpper(page_y) == s.down_point[2] - page_y
BackFromLower(page_y) == page_y - s.down_point[2]

\* a following move further in the same direction keeps the pitch at the limit
C10_Further ==
    [][\A p \in Points :
        /\ (AtLimit(200) /\ BackFromUpper(p[2]) <= 0 /\ MoveTo(p))
              => s'.current_angles[2] = 200
        /\ (AtLimit(-200) /\ BackFromLower(p[2]) <= 0 /\ MoveTo(p))
              => s'.current_angles[2] = -200]_vars

\* C10 as stated: ... and a following move back by d pixels moves the pitch exactly
\* d / viewportH inside the limit, for every d.
C10_Original ==
    [][\A p \in Points :
        /\ (AtLimit(200) /\ BackFromUpper(p[2]) > 0 /\ MoveTo(p))
              => s'.current_angles[2]
                   = 200 - FDiv(BackFromUpper(p[2]) * Milli, s.window_height)
        /\ (AtLimit(-200) /\ BackFromLower(p[2]) > 0 /\ MoveTo(p))
              => s'.current_angles[2]
                   = -200 + FDiv(BackFromLower(p[2]) * Milli, s.window_height)]_vars

\* the pitch d pixels back from limit b, stopped at the opposite limit
BackPitch(b, d) ==
    LET t == FDiv(d * Milli, s.window_height)
    IN  IF b > 0
        THEN (IF b - t < -200 THEN -200 ELSE b - t)
        ELSE (IF b + t > 200 THEN 200 ELSE b + t)

\* C10 amended: the clamping move rebases prev pitch and down_point.y; a following
\* move further on stays at the limit; a following move back by d pixels moves the
\* pitch exactly d / viewportH inside the limit as long as d / viewportH <= 0.4 (the
\* width of the range), and beyond that it is clamped at the opposite limit.
C10_RebaseNoJump ==
    /\ C10_Rebase
    /\ C10_Further
    /\ [][\A p \in Points :
            /\ (AtLimit(200) /\ BackFromUpper(p[2]) > 0 /\ MoveTo(p))
                  => s'.current_angles[2] = BackPitch(200, BackFromUpper(p[2]))
            /\ (AtLimit(-200) /\ BackFromLower(p[2]) > 0 /\ MoveTo(p))
                  => s'.current_angles[2] = BackPitch(-200, BackFromLower(p[2]))]_vars

\* C10 witness: after a clamp at the upper limit rebased the drag to y = 600, a
\* move back by 600 pixels (viewport height 2000) put the pitch 0.3 inside it.
C10_Witness ==
    /\ last_op \in MoveOps
    /\ s.down
    /\ s.prev_angles[2] = 200
    /\ s.down_point[2] = 600
    /\ s.displacement[2] = 300
    /\ s.current_angles[2] = -100

----------------------------------------------------------------------------
(* Claims about the renderer and the scene (SpecRender) *)

HandleFields == {"vertex_buffer", "index_buffer", "uniform_buffer", "bind_group"}

\* the mesh of identity id is at position i before and at position j after the step
SameMesh(i, j) ==
    /\ i \in 1..Len(scene)
    /\ j \in 1..Len(scene')
    /\ scene[i].id = scene'[j].id

\* C3: over any sequence of render calls each mesh's vertex buffer, index buffer,
\* uniform buffer and bind group are each created at most once, and once a handle
\* is present no later step replaces or clears it.
C3_CreatedOnce ==
    /\ [](\A id \in DOMAIN gpu.made : \A f \in HandleFields : gpu.made[id][f] <= 1)
    /\ [][\A i \in 1..MaxMeshes + 1, j \in 1..MaxMeshes + 1 :
            SameMesh(i, j) =>
               \A f \in HandleFields : scene[i][f] # 0 => scene'[j][f] = scene[i][f]]_vars

\* C3 witness: a render ran over two meshes that all hold their four handles, each
\* created exactly once, one of the meshes older than the other.
C3_Witness ==
    /\ last_op = "Render"
    /\ gpu.result = "ok"
    /\ Len(scene) >= 2
    /\ \A i \in 1..Len(scene) : \A f \in HandleFields :
          scene[i][f] = 1 /\ gpu.made[scene[i].id][f] = 1

\* the ids of the meshes the commands of the last frame name
FrameMeshes == {gpu.frame[k].mesh : k \in 1..Len(gpu.frame)}

\* C4: in a render call a mesh with visible = false gets no draw call and no
\* uniform-buffer write in that frame, but has its vertex/index buffers and its
\* uniform buffer/bind group created if they were absent.
C4_InvisibleSkipped ==
    last_op = "Render" =>
        \A i \in 1..Len(scene) :
            ~scene[i].visible =>
                /\ scene[i].id \notin FrameMeshes
                /\ \A f \in HandleFields : scene[i][f] # 0

\* C4 witness: a successful render over an invisible mesh, which holds its handles,
\* and a visible one, which was drawn.
C4_Witness ==
    /\ last_op = "Render"
    /\ gpu.result = "ok"
    /\ \E i, j \in 1..Len(scene) :
          /\ ~scene[i].visible
          /\ scene[i].vertex_buffer = 1
          /\ scene[i].bind_group = 1
          /\ scene[j].visible
          /\ scene[j].id \in FrameMeshes

\* C6: Renderer::set_size with width = 0 or height = 0 leaves the surface
\* configuration and the depth texture and view unchanged; with both > 0 it sets
\* the configured width and height and recreates the depth texture at that size.
C6_RendererResize ==
    [][\A wh \in Sizes :
        (last_op' = "Resize" /\ Resize(wh)) =>
            IF wh[1] = 0 \/ wh[2] = 0
            THEN renderer' = renderer
            ELSE /\ renderer'.config = [width |-> wh[1], height |-> wh[2]]
                 /\ renderer'.configured = wh
                 /\ renderer'.depth_texture.width = wh[1]
                 /\ renderer'.depth_texture.height = wh[2]
                 /\ renderer'.depth_texture.id # renderer.depth_texture.id
                 /\ renderer'.depth_view = renderer'.depth_texture.id]_vars

\* C6 witness: a resize to 1024 x 768 replaced the depth texture of the 800 x 600
\* canvas.
C6_Witness ==
    /\ last_op = "Resize"
    /\ renderer.config = [width |-> 1024, height |-> 768]
    /\ renderer.depth_texture = [id |-> 2, width |-> 1024, height |-> 768]

IsVisible(mesh) == mesh.visible
IsDraw(command) == command.op = "draw_indexed"

\* one draw per visible mesh, over its full index count, in scene order
ExpectedDraws ==
    LET shown == SelectSeq(scene, IsVisible)
    IN  [k \in 1..Len(shown) |->
            [op |-> "draw_indexed", mesh |-> shown[k].id, count |-> shown[k].geometry.indices]]

\* C9: a successful render issues exactly one indexed draw, over the mesh's full
\* index count, for every visible mesh and none for any other, in scene order,
\* which is the order of the Scene::add calls (mesh identities ascend).
C9_DrawOrder ==
    /\ \A i, j \in 1..Len(scene) : i < j => scene[i].id < scene[j].id
    /\ (last_op = "Render" /\ gpu.result = "ok")
          => SelectSeq(gpu.frame, IsDraw) = ExpectedDraws

\* C9 witness: a successful render drew a box and a plane around an invisible mesh.
C9_Witness ==
    /\ last_op = "Render"
    /\ gpu.result = "ok"
    /\ Len(scene) = 3
    /\ ~scene[2].visible
    /\ SelectSeq(gpu.frame, IsDraw) =
          << [op |-> "draw_indexed", mesh |-> scene[1].id, count |-> 36],
             [op |-> "draw_indexed", mesh |-> scene[3].id, count |-> 6] >>

----------------------------------------------------------------------------
(* Claims about the Engine (SpecEngine) *)

\* C5 as stated: a render that fails to acquire the surface texture returns an
\* error and has mutated nothing: the meshes' handles and the engine's state are
\* as before the call.
C5_FailedRenderNoChange ==
    [][(last_op' = "render" /\ gpu'.result = "err")
          => UNCHANGED <<scene, time, renderer, Controls>>]_vars

\* C7 as stated: Engine::set_size changes neither the camera aspect nor the
\* controller's viewport dimensions, and with w = 0 or h = 0 the whole engine state
\* is unchanged.
C7_Original ==
    [][\A wh \in Sizes :
        EngineSetSize(wh[1], wh[2]) =>
            /\ camera'.aspect = camera.aspect
            /\ s'.window_width = s.window_width
            /\ s'.window_height = s.window_height
            /\ (wh[1] = 0 \/ wh[2] = 0)
                  => UNCHANGED <<s, cc, camera, scene, renderer, time>>]_vars

\* is a the f32 quotient w / h
IsQuotient(a, w, h) ==
    IF h = 0
    THEN a.kind = (IF w = 0 THEN "nan" ELSE "inf")
    ELSE /\ a.kind = "finite"
         /\ a.v * h <= w * Milli
         /\ w * Milli < (a.v + 1) * h

\* C7 amended: Engine::set_size(w, h) itself sets the camera aspect to w / h and the
\* controller's viewport to (w, h), for every w and h, zero included; with w = 0 or
\* h = 0 only the renderer (surface configuration, depth texture) is unchanged.
\* The scene, Engine.time and the rest of the controller state are never changed.
C7_EngineResize ==
    [][\A wh \in Sizes :
        EngineSetSize(wh[1], wh[2]) =>
            /\ IsQuotient(camera'.aspect, wh[1], wh[2])
            /\ camera' = [camera EXCEPT !.aspect = camera'.aspect]
            /\ s' = [s EXCEPT !.window_width = wh[1], !.window_height = wh[2]]
            /\ (wh[1] = 0 \/ wh[2] = 0) => renderer' = renderer
            /\ (wh[1] > 0 /\ wh[2] > 0)
                  => renderer'.config = [width |-> wh[1], height |-> wh[2]]
            /\ UNCHANGED <<cc, scene, time>>]_vars

\* C7 witness: Engine::set_size(0, 600) left the 800 x 600 surface configuration
\* and set the controller's viewport width and the camera aspect to 0.
C7_Witness ==
    /\ last_op = "resize"
    /\ renderer.config = [width |-> 800, height |-> 600]
    /\ s.window_width = 0
    /\ s.window_height = 600
    /\ camera.aspect = [kind |-> "finite", v |-> 0]

----------------------------------------------------------------------------
(* Claims about convergence (SpecConverge) *)

\* update calls so far: each update(1.0) adds 0.1 to the time accumulator
Calls == cc.time \div 100

YawGoal == s.current_angles[1] * TwoPi
PitchGoal == s.current_angles[2] * TwoPi

\* value' is no farther from goal than value and on the same side of it
Approaches(value, next, goal) ==
    /\ Abs(goal - next) <= Abs(goal - value)
    /\ (value <= goal) => (next <= goal)
    /\ (value >= goal) => (next >= goal)

\* an update no longer moves the value: the step (goal - value) / n rounds to zero
Settled(value, goal, n) == Abs(goal - value) < n

\* C8, first half: an update never moves final_radians or radius away from or
\* across their targets.
C8_Monotone ==
    [][last_op' = "Update" =>
        /\ Approaches(s.final_radians[1], s'.final_radians[1], YawGoal)
        /\ Approaches(s.final_radians[2], s'.final_radians[2], PitchGoal)
        /\ Approaches(cc.radius, cc'.radius, s.wheel_delta)]_vars

\* C8 as stated: ... and after about 100 calls they are within floating tolerance
\* of the targets.
C8_Original ==
    Calls >= ConvergeCalls =>
        /\ Settled(s.final_radians[1], YawGoal, 20)
        /\ Settled(s.final_radians[2], PitchGoal, 50)
        /\ Settled(cc.radius, s.wheel_delta, 20)

\* C8 amended: with no further input, repeated update calls move final_radians and
\* radius monotonically toward current_angles * 2 pi and wheel_delta; after 100
\* calls the remaining distance is below 1% of the distance at the last input for
\* final_radians.yaw and radius (factor (19/20)^100) and below 14% of it for
\* final_radians.pitch (factor (49/50)^100), up to the rounding of the steps.
C8_Converges ==
    /\ C8_Monotone
    /\ [](Calls >= ConvergeCalls =>
            /\ Abs(YawGoal - s.final_radians[1]) * 100
                  <= Abs(YawGoal - prev_angles0[1] * TwoPi) + 100 * 20
            /\ Abs(PitchGoal - s.final_radians[2]) * 100
                  <= 14 * Abs(PitchGoal - prev_angles0[2] * TwoPi) + 100 * 50
            /\ Abs(s.wheel_delta - cc.radius) * 100
                  <= Abs(s.wheel_delta - radius0) + 100 * 20)

\* C8 witness: 100 updates after a drag to the upper limit and a wheel notch, with
\* final_radians.pitch still more than a tenth of the way from its target.
C8_Witness ==
    /\ Calls = ConvergeCalls
    /\ s.current_angles[2] = 200
    /\ s.wheel_delta # radius0
    /\ Abs(PitchGoal - s.final_radians[2]) * 10 > Abs(PitchGoal - prev_angles0[2] * TwoPi)
    /\ cc.radius # s.wheel_delta

----------------------------------------------------------------------------
(* Claims about the pointer handlers (Spec) *)

\* C11: PointerUp while enabled sets down = false, sets prev_angles to
\* current_angles and records the raw pointer position as (x, y); while no drag is
\* in progress current_angles equals the committed prev_angles, and a later
\* PointerDown followed by a PointerMove at the same point leaves current_angles
\* equal to the committed value.
C11_PointerUpCommits ==
    /\ [][\A p \in Points :
            (s.enabled /\ last_op' = "PointerUp" /\ PointerUp(p))
               => /\ ~s'.down
                  /\ s'.prev_angles = s.current_angles
                  /\ s'.current_angles = s.current_angles
                  /\ s'.raw_mouse_x = p[1] * Milli
                  /\ s'.raw_mouse_y = p[2] * Milli]_vars
    /\ [](~s.down => s.current_angles = s.prev_angles)
    /\ [][\A p \in Points :
            (s.enabled /\ last_op = "PointerDown" /\ s.down_point = p
                /\ last_op' = "PointerMove" /\ PointerMove(p))
               => /\ s'.current_angles = s.prev_angles
                  /\ s'.prev_angles = s.prev_angles]_vars

\* C11 witness: a drag was committed by PointerUp (prev yaw is no longer the
\* initial one), and a PointerDown and a PointerMove at the same point followed,
\* leaving current_angles at the committed value.
C11_Witness ==
    /\ last_op = "PointerMove"
    /\ s.enabled
    /\ s.down
    /\ s.displacement = <<0, 0>>
    /\ s.prev_angles[1] # prev_angles0[1]
    /\ s.current_angles = s.prev_angles
    /\ s.down_point = <<300, 600>>
    /\ s.window_height = 1000

\* the value v held within the pitch limits
Clamped(v) == IF v > 200 THEN 200 ELSE IF v < -200 THEN -200 ELSE v

\* C12: PointerMove(x, y) while enabled and down sets displacement to
\* (down_point - (x, y)) / (viewportW, viewportH), current yaw to prev yaw +
\* displacement.x and current pitch to prev pitch - displacement.y held within the
\* limits; the yaw is never clamped, and prev yaw and down_point.x do not change.
C12_DragAngles ==
    [][\A p \in Points :
        (s.enabled /\ s.down /\ last_op' = "PointerMove" /\ PointerMove(p))
           => LET dx == FDiv((s.down_point[1] - p[1]) * Milli, s.window_width)
                  dy == FDiv((s.down_point[2] - p[2]) * Milli, s.window_height)
              IN  /\ s'.displacement = <<dx, dy>>
                  /\ s'.current_angles[1] = s.prev_angles[1] + dx
                  /\ s'.current_angles[2] = Clamped(s.prev_angles[2] - dy)
                  /\ s'.prev_angles[1] = s.prev_angles[1]
                  /\ s'.down_point[1] = s.down_point[1]]_vars

\* C12 witness: a drag from (0, 0) to (300, 600) moved the yaw by -0.3 turn to
\* -0.26, outside the range the pitch is held in.
C12_Witness ==
    /\ last_op = "PointerMove"
    /\ s.enabled
    /\ s.down
    /\ s.down_point[1] = 0
    /\ s.displacement[1] = -300
    /\ s.prev_angles[1] = 40
    /\ s.current_angles[1] = -260

\* C13: every PointerMove(x, y) while enabled, dragging or not, sets offset.x to
\* (x / viewportW - 0.5) * -30 and offset.y to (y / viewportH - 0.5) * -30 and
\* leaves offset.z unchanged; when not down it changes nothing else but the raw
\* pointer position, which it sets to (x, y).
C13_ParallaxOffset ==
    [][\A p \in Points :
        (s.enabled /\ last_op' = "PointerMove" /\ PointerMove(p))
           => LET ox == (FDiv(p[1] * Milli, s.window_width) - 500) * (-30)
                  oy == (FDiv(p[2] * Milli, s.window_height) - 500) * (-30)
              IN  /\ s'.offset = [x |-> ox, y |-> oy, z |-> s.offset.z]
                  /\ ~s.down =>
                        s' = [s EXCEPT !.offset = [x |-> ox, y |-> oy, z |-> s.offset.z],
                                       !.raw_mouse_x = p[1] * Milli,
                                       !.raw_mouse_y = p[2] * Milli]]_vars

\* C13 witness: a move to (300, 600) in a 1000 x 1000 viewport with no drag in
\* progress set the offset to (6, -3, 0) and the raw pointer position, but neither
\* the smoothed pointer nor the angles.
C13_Witness ==
    /\ last_op = "PointerMove"
    /\ s.enabled
    /\ ~s.down
    /\ s.offset = Vec3(6 * Milli, -3 * Milli, 0)
    /\ s.raw_mouse_x = 300 * Milli
    /\ s.raw_mouse_y = 600 * Milli
    /\ s.mouse_x # s.raw_mouse_x
    /\ s.current_angles = s.prev_angles

----------------------------------------------------------------------------
(* Claims about the wheel (SpecZoom) *)

\* C14: Wheel(deltaY) while enabled sets wheel_delta to wheel_delta - deltaY * 0.1
\* with no lower or upper bound; a sequence of Wheel events followed by updates
\* can drive wheel_delta, and then radius, to zero or below (the witness).
C14_WheelUnbounded ==
    [][\A d \in WheelDeltas :
        (s.enabled /\ last_op' = "Wheel" /\ Wheel(d, <<0, 0>>))
           => s'.wheel_delta = s.wheel_delta - FDiv(d * Milli, 10)]_vars

\* C14 witness: after wheel events took wheel_delta below zero, updates have
\* taken the radius to zero or below.
C14_Witness ==
    /\ last_op = "Update"
    /\ s.wheel_delta < 0
    /\ cc.radius <= 0

----------------------------------------------------------------------------
(* Claims about the touch handlers *)

\* C15: from the same state and with the same coordinates, TouchStart, TouchMove
\* and TouchEnd produce exactly the same controller state as PointerDown,
\* PointerMove and PointerUp respectively.
C15_TouchMirrorsPointer ==
    \A p \in Points :
        /\ OnTouchStart(s, <<p>>) = OnMouseDown(s, p[1], p[2])
        /\ OnTouchMove(s, <<p>>) = OnMouseMove(s, p[1], p[2])
        /\ OnTouchEnd(s, <<p>>) = OnMouseUp(s, p[1], p[2])

\* C15 witness: a touch drag is in progress and its last move was held at the
\* upper pitch limit, so the next touch or pointer event starts from a state the
\* touch handlers produced.
C15_Witness ==
    /\ last_op = "TouchMove"
    /\ s.enabled
    /\ s.down
    /\ s.displacement[2] # 0
    /\ s.current_angles[2] = 200
    /\ s.down_point[2] = 600

\* C16: only the first touch point drives the controller: while one touch is
\* active, the start, move or end of any other touch leaves down, down_point, the
\* angles and the offset unchanged.
C16_ExtraTouchIgnored ==
    [][\A t \in FingerTouches :
        (/\ touching # <<>>
         /\ t[3] # touching[1]
         /\ (FingerDown(<<t>>) \/ FingerMove(<<t>>) \/ FingerUp(<<t>>)))
           => /\ s'.down = s.down
              /\ s'.down_point = s.down_point
              /\ s'.prev_angles = s.prev_angles
              /\ s'.current_angles = s.current_angles
              /\ s'.offset = s.offset]_vars

----------------------------------------------------------------------------
(* Claims about update (Spec) *)

\* the controls' fields other than the time accumulator
Timeless(c) == [c EXCEPT !.time = 0]

\* C17: update(dt) does not scale any smoothing by dt: the final_radians, radius,
\* eased wheel, eased offset, camera position and smoothed pointer an update
\* produces are those any other dt would have produced from the same state, each
\* step being a fixed fraction of the distance; only the time accumulator differs,
\* and its value influences no other state.
C17_UpdateIgnoresDt ==
    [][last_op' = "Update" =>
        /\ s'.final_radians[1]
             = s.final_radians[1] + FDiv(s.current_angles[1] * TwoPi - s.final_radians[1], 20)
        /\ s'.final_radians[2]
             = s.final_radians[2] + FDiv(s.current_angles[2] * TwoPi - s.final_radians[2], 50)
        /\ s'.mouse_x = s.mouse_x + FDiv(s.raw_mouse_x - s.mouse_x, 10)
        /\ s'.mouse_y = s.mouse_y + FDiv(s.raw_mouse_y - s.mouse_y, 10)
        /\ cc'.radius = cc.radius + FDiv(s.wheel_delta - cc.radius, 20)
        /\ \A dt \in DeltaTimes :
              /\ s' = UpdateState(s)
              /\ Timeless(cc') = Timeless(UpdateControls(cc, s, dt))
              /\ camera' = UpdateCamera(camera, UpdateControls(cc, s, dt), UpdateState(s))
              /\ \E dt0 \in DeltaTimes : cc'.time = cc.time + FDiv(dt0, 10)
              /\ \A t \in {0, cc.time + 100} :
                    Timeless(UpdateControls([cc EXCEPT !.time = t], s, dt)) = Timeless(cc')]_vars

\* C17 witness: updates with dt = 1.0 and dt = 2.0 have run (time accumulator 0.3)
\* after a wheel notch, the radius still on its way to wheel_delta.
C17_Witness ==
    /\ last_op = "Update"
    /\ cc.time = 300
    /\ s.wheel_delta # radius0
    /\ cc.radius # s.wheel_delta
    /\ cc.radius # radius0

----------------------------------------------------------------------------
(* Claims about Mesh::model_matrix (SpecMatrix) *)

\* the image of the point v under the 16 floats m read in the column-vector
\* convention: element (row r, column c) is data[c * 4 + r], the point is a column
\* with w = 1
ColumnApply(m, v) ==
    Vec3(FDiv(m[1] * v.x, Milli) + FDiv(m[5] * v.y, Milli) + FDiv(m[9] * v.z, Milli) + m[13],
         FDiv(m[2] * v.x, Milli) + FDiv(m[6] * v.y, Milli) + FDiv(m[10] * v.z, Milli) + m[14],
         FDiv(m[3] * v.x, Milli) + FDiv(m[7] * v.y, Milli) + FDiv(m[11] * v.z, Milli) + m[15])

\* the elementary maps of a point
ScaleBy(k, v) == Vec3(FDiv(k.x * v.x, Milli), FDiv(k.y * v.y, Milli), FDiv(k.z * v.z, Milli))
TranslateBy(p, v) == Vec3(v.x + p.x, v.y + p.y, v.z + p.z)
TurnX(angle, v) ==
    LET c == QuarterCos(angle) \div Milli
        sn == QuarterSin(angle) \div Milli
    IN  Vec3(v.x, c * v.y - sn * v.z, sn * v.y + c * v.z)
TurnY(angle, v) ==
    LET c == QuarterCos(angle) \div Milli
        sn == QuarterSin(angle) \div Milli
    IN  Vec3(c * v.x + sn * v.z, v.y, c * v.z - sn * v.x)
TurnZ(angle, v) ==
    LET c == QuarterCos(angle) \div Milli
        sn == QuarterSin(angle) \div Milli
    IN  Vec3(c * v.x - sn * v.y, sn * v.x + c * v.y, v.z)

\* the origin and the ends of the three unit vectors: they determine an affine map
TestPoints == {Vec3(0, 0, 0), Vec3(Milli, 0, 0), Vec3(0, Milli, 0), Vec3(0, 0, Milli)}

\* Translation(position) . RotationY . RotationX . RotationZ . Scale(scale) applied
\* to a column vector: scaled first, then turned about z, x and y, then translated
ScaledTurnedTranslated(mesh, v) ==
    TranslateBy(mesh.position,
        TurnY(mesh.rotation.y,
            TurnX(mesh.rotation.x,
                TurnZ(mesh.rotation.z,
                    ScaleBy(mesh.scale, v)))))

\* C18: the matrix Mesh::model_matrix returns equals Translation(position) .
\* RotationY(rotation.y) . RotationX(rotation.x) . RotationZ(rotation.z) .
\* Scale(scale) in the column-vector convention: it scales a point first, then
\* rotates it, then translates it.
C18_ComposeOrder ==
    last_op = "model_matrix" =>
        \A v \in TestPoints : ColumnApply(matrix, v) = ScaledTurnedTranslated(scene[1], v)

\* C19: the matrix Mesh::model_matrix returns decomposes back to the mesh's
\* position (its translation entries) and scale (the lengths of its basis vectors).
C19_Decomposes ==
    last_op = "model_matrix" =>
        /\ <<matrix[13], matrix[14], matrix[15]>>
             = <<scene[1].position.x, scene[1].position.y, scene[1].position.z>>
        /\ matrix[1] * matrix[1] + matrix[2] * matrix[2] + matrix[3] * matrix[3]
             = scene[1].scale.x * scene[1].scale.x
        /\ matrix[5] * matrix[5] + matrix[6] * matrix[6] + matrix[7] * matrix[7]
             = scene[1].scale.y * scene[1].scale.y
        /\ matrix[9] * matrix[9] + matrix[10] * matrix[10] + matrix[11] * matrix[11]
             = scene[1].scale.z * scene[1].scale.z

----------------------------------------------------------------------------
(* Claims about Geometry construction (SpecGeometry) *)

Malformed(vertices, indices) ==
    \/ Len(indices) % 3 # 0
    \/ \E i \in DOMAIN indices : indices[i] >= vertices

WellFormed(geometry) ==
    /\ geometry.indices % 3 = 0
    /\ geometry.max_index < geometry.vertices

----------------------------------------------------------------------------
(* Claims about the shape factories (SpecFactory) *)

Normals(g) == {g.vertices[i].normal : i \in DOMAIN g.vertices}
Carriers(g, normal) == {i \in DOMAIN g.vertices : g.vertices[i].normal = normal}

\* C21: for all dimensions the box factory returns exactly 24 vertices and 36
\* indices, every index < 24, and 6 distinct face normals each carried by exactly
\* 4 vertices; the plane factory returns 4 vertices and 6 indices, every index < 4.
C21_FactoryCounts ==
    /\ last_op = "BoxGeometry::new" =>
          /\ Len(shape.vertices) = 24
          /\ Len(shape.indices) = 36
          /\ \A k \in DOMAIN shape.indices : shape.indices[k] \in 0..23
          /\ Cardinality(Normals(shape)) = 6
          /\ \A n \in Normals(shape) : Cardinality(Carriers(shape, n)) = 4
    /\ last_op = "PlaneGeometry::new" =>
          /\ Len(shape.vertices) = 4
          /\ Len(shape.indices) = 6
          /\ \A k \in DOMAIN shape.indices : shape.indices[k] \in 0..3

\* a box with a zero and a negative dimension was built
C21_Witness ==
    /\ last_op = "BoxGeometry::new"
    /\ shape.vertices[1].position = <<0, 1 * Milli, 500>>

\* the three corners of the triangle starting at index k (1-based) of the index list
Corner(g, k) == g.vertices[g.indices[k] + 1]

Minus(a, b) == <<a[1] - b[1], a[2] - b[2], a[3] - b[3]>>
\* products of fixed-point vectors, in the same unit
Cross(a, b) ==
    << FDiv(a[2] * b[3] - a[3] * b[2], Milli),
       FDiv(a[3] * b[1] - a[1] * b[3], Milli),
       FDiv(a[1] * b[2] - a[2] * b[1], Milli) >>
Dot(a, b) == FDiv(a[1] * b[1] + a[2] * b[2] + a[3] * b[3], Milli)

\* a and b are parallel and point the same way
SameDirection(a, b) == Cross(a, b) = <<0, 0, 0>> /\ Dot(a, b) > 0

\* every triangle's (v1 - v0) x (v2 - v0) points along the normal stored in each of
\* its three vertices
CounterClockwise(g) ==
    \A t \in 0..(Len(g.indices) \div 3 - 1) :
        LET v0 == Corner(g, 3 * t + 1)
            v1 == Corner(g, 3 * t + 2)
            v2 == Corner(g, 3 * t + 3)
            n  == Cross(Minus(v1.position, v0.position), Minus(v2.position, v0.position))
        IN  /\ SameDirection(n, v0.normal)
            /\ SameDirection(n, v1.normal)
            /\ SameDirection(n, v2.normal)

\* the normal points away from the centre of the box: the vertex lies on its side
Outward(g) ==
    \A i \in DOMAIN g.vertices : Dot(g.vertices[i].position, g.vertices[i].normal) > 0

\* C22: for positive dimensions every triangle of the box and of the plane is wound
\* counter-clockwise seen from outside: (v1 - v0) x (v2 - v0) points in the
\* direction of the stored normal of its vertices, outward for the box and +Z for
\* the plane.
C22_Winding ==
    [][ /\ \A w \in Dims, h \in Dims, d \in Dims :
              (w > 0 /\ h > 0 /\ d > 0 /\ last_op' = "BoxGeometry::new" /\ BoxNew(w, h, d))
                  => (CounterClockwise(shape') /\ Outward(shape'))
        /\ \A w \in Dims, h \in Dims :
              (w > 0 /\ h > 0 /\ last_op' = "PlaneGeometry::new" /\ PlaneNew(w, h))
                  => /\ CounterClockwise(shape')
                     /\ \A i \in DOMAIN shape'.vertices :
                           shape'.vertices[i].normal = <<0, 0, 1 * Milli>> ]_vars

\* a box of 1 by 2 by 3 units was built
C22_Witness ==
    /\ last_op = "BoxGeometry::new"
    /\ shape.vertices[1].position = <<-500, -1 * Milli, 1500>>

----------------------------------------------------------------------------
(* Claims about the Engine's scene (SpecEngine) *)

\* C23: after engine creation mesh_count() is 100, a 10 by 10 grid of unit cubes
\* at x = (i - 5) * 2, y = j - 5, z = 0; update and render calls never change
\* mesh_count(); after clear_scene() mesh_count() is 0.
C23_MeshCount ==
    [][ /\ last_op = "new" =>
              /\ mesh_count = 100
              /\ \A i \in 0..9, j \in 0..9 :
                    /\ scene[i * 10 + j + 1].position
                         = Vec3((i - 5) * 2 * Milli, (j - 5) * Milli, 0)
                    /\ scene[i * 10 + j + 1].geometry = BoxGeometry
                    /\ scene[i * 10 + j + 1].scale = Vec3(1 * Milli, 1 * Milli, 1 * Milli)
        /\ last_op' \in {"update", "render"} => SceneLen(scene') = SceneLen(scene)
        /\ last_op' = "clear_scene" => SceneLen(scene') = 0 ]_vars

\* the scene was cleared after frames were updated and rendered
C23_Witness ==
    /\ last_op = "clear_scene"
    /\ mesh_count = 0
    /\ time > 0
    /\ cc.time > 0

----------------------------------------------------------------------------
(* Claims about the shared state's borrows (SpecBorrow) *)

\* C24: the controller's shared state is never mutably borrowed by two call sites
\* at once: no borrow_mut panics, the borrow belongs to the event handler or
\* update call on the stack, it is released when that call returns, and none is
\* held while render runs.
C24_ExclusiveBorrow ==
    /\ ~cell.panicked
    /\ cell.flag \in {0, -1}
    /\ cell.flag = -1 <=> cell.borrowed
    /\ cell.borrowed => cell.call \in BorrowCalls
    /\ cell.call \in {"none", "render"} => cell.flag = 0

\* update holds the borrow after a handler ran and a frame was rendered
C24_Witness ==
    /\ cell.call = "update"
    /\ cell.flag = -1
    /\ s.down
    /\ gpu.result = "ok"

----------------------------------------------------------------------------
(* Claims about the order of a frame's commands (SpecRender) *)

PositionsOf(op) == {k \in DOMAIN gpu.frame : gpu.frame[k].op = op}

\* C25: within one render call every uniform-buffer write of the frame is queued
\* before the command buffer containing the render pass is submitted, and the
\* frame is presented only after that submission.
C25_WritesBeforeSubmit ==
    gpu.frame # <<>> =>
        /\ Cardinality(PositionsOf("submit")) = 1
        /\ Cardinality(PositionsOf("begin_render_pass")) = 1
        /\ Cardinality(PositionsOf("present")) = 1
        /\ \A w \in PositionsOf("write_buffer"), b \in PositionsOf("begin_render_pass"),
              d \in PositionsOf("draw_indexed"), q \in PositionsOf("submit"),
              e \in PositionsOf("present") :
                 w < b /\ b < d /\ d < q /\ q < e
        /\ \A w \in PositionsOf("write_buffer"), q \in PositionsOf("submit"),
              e \in PositionsOf("present") :
                 w < q /\ q < e
        /\ \A q \in PositionsOf("submit"), e \in PositionsOf("present") : q < e

\* a frame wrote two uniform buffers and drew two meshes
C25_Witness ==
    /\ last_op = "Render"
    /\ Cardinality(PositionsOf("write_buffer")) = 2
    /\ Cardinality(PositionsOf("draw_indexed")) = 2

----------------------------------------------------------------------------
(* Claims about the view center (SpecZoom) *)

----------------------------------------------------------------------------
(* Claims about the filters of update (SpecConverge) *)

\* next is value moved by 1/n of its distance to goal, the quotient rounded toward
\* zero
MovedBy(value, next, goal, n) ==
    /\ Abs(n * (next - value) - (goal - value)) < n
    /\ goal >= value => next >= value
    /\ goal <= value => next <= value
    /\ Abs(goal - value) >= n => next # value

\* C27: one update(dt) moves final_radians.yaw by 1/20 and final_radians.pitch by
\* 1/50 of their distance to current_angles times 2 pi, eased_wheel by 1/10 and
\* radius by 1/20 of their distance to wheel_delta; radius is filtered directly
\* from wheel_delta and its new value does not depend on eased_wheel.
C27_Filters ==
    [][last_op' = "Update" =>
        /\ MovedBy(s.final_radians[1], s'.final_radians[1], s.current_angles[1] * TwoPi, 20)
        /\ MovedBy(s.final_radians[2], s'.final_radians[2], s.current_angles[2] * TwoPi, 50)
        /\ MovedBy(cc.wheel_delta_ease, cc'.wheel_delta_ease, s.wheel_delta, 10)
        /\ MovedBy(cc.radius, cc'.radius, s.wheel_delta, 20)
        /\ \A e \in {cc.radius, s.wheel_delta, 0} :
              UpdateControls([cc EXCEPT !.wheel_delta_ease = e], s, 1 * Milli).radius
                = cc'.radius ]_vars

\* an update ran with both angles, the eased wheel and the radius on their way,
\* the eased wheel ahead of the radius
C27_Witness ==
    /\ last_op = "Update"
    /\ s.final_radians[1] # s.current_angles[1] * TwoPi
    /\ s.final_radians[2] # s.current_angles[2] * TwoPi
    /\ cc.wheel_delta_ease # s.wheel_delta
    /\ cc.radius # s.wheel_delta
    /\ cc.radius # cc.wheel_delta_ease
    /\ cc.time >= 300

----------------------------------------------------------------------------
(* Claims about the matrix the renderer uploads (SpecMatrix) *)

\* C28: the model matrix the renderer writes into a visible mesh's uniform buffer,
\* Mesh::model_matrix_glam(), is the matrix mesh.model_matrix() returns: for every
\* position, rotation and scale the two give the same 16 values.
C28_GlamAgrees ==
    last_op = "model_matrix" => MeshModelMatrixGlam(scene[1]) = matrix

----------------------------------------------------------------------------
(* Claims about PointerDown (Spec) *)

\* the fields of the shared state other than down and down_point
BesidesDown(st) == [st EXCEPT !.down = FALSE, !.down_point = <<0, 0>>]

\* C29: PointerDown(x, y) while enabled sets down = true and down_point = (x, y)
\* and changes nothing else: prev_angles, current_angles, displacement, wheel_delta
\* and offset are unchanged, also when a drag is already in progress.
C29_PointerDownOnly ==
    [][\A p \in Points :
        (s.enabled /\ last_op' = "PointerDown" /\ PointerDown(p))
          => /\ s'.down
             /\ s'.down_point = p
             /\ s'.prev_angles = s.prev_angles
             /\ s'.current_angles = s.current_angles
             /\ s'.displacement = s.displacement
             /\ s'.wheel_delta = s.wheel_delta
             /\ s'.offset = s.offset
             /\ BesidesDown(s') = BesidesDown(s)
             /\ UNCHANGED <<cc, camera>>]_vars

\* a second PointerDown arrived during a drag that had already turned the camera
C29_Witness ==
    /\ last_op = "PointerDown"
    /\ s.enabled
    /\ s.down
    /\ s.down_point = <<300, 600>>
    /\ s.current_angles # s.prev_angles

----------------------------------------------------------------------------
(* Claims about the eased pitch (Spec) *)

----------------------------------------------------------------------------
(* Claims about the pairing of a mesh's handles (SpecRender) *)

\* the draw_indexed commands of the last frame that name the mesh of identity id
DrawsOf(id) ==
    {k \in DOMAIN gpu.frame : gpu.frame[k].op = "draw_indexed" /\ gpu.frame[k].mesh = id}

\* C31: in every reachable state a mesh's vertex buffer is present exactly when
\* its index buffer is and its uniform buffer exactly when its bind group is;
\* after a successful render every mesh in the scene holds all four handles and
\* every visible mesh of the scene was drawn in that frame.
C31_HandlesPaired ==
    /\ \A i \in 1..Len(scene) :
          /\ (scene[i].vertex_buffer # 0) <=> (scene[i].index_buffer # 0)
          /\ (scene[i].uniform_buffer # 0) <=> (scene[i].bind_group # 0)
    /\ (last_op = "Render" /\ gpu.result = "ok") =>
          \A i \in 1..Len(scene) :
              /\ \A f \in HandleFields : scene[i][f] # 0
              /\ scene[i].visible => Cardinality(DrawsOf(scene[i].id)) = 1

\* a successful render over three meshes, two visible and drawn and one hidden,
\* all of them holding their four handles
C31_Witness ==
    /\ last_op = "Render"
    /\ gpu.result = "ok"
    /\ Len(scene) = 3
    /\ Cardinality({i \in 1..3 : scene[i].visible /\ DrawsOf(scene[i].id) # {}}) = 2
    /\ \A i \in 1..3 : \A f \in HandleFields : scene[i][f] # 0

----------------------------------------------------------------------------
(* Claims about enabling and disabling the controls (Spec) *)

\* C32: SetEnabled changes only the enabled flag: down, down_point, prev_angles,
\* current_angles, wheel_delta and offset keep their values; and while the
\* controls are disabled no step ends a drag (a PointerUp or TouchEnd is ignored),
\* so a drag in progress when the controls were disabled is still in progress,
\* with down = true, after they are enabled again.
C32_SetEnabledOnly ==
    /\ [][\A e \in BOOLEAN :
            (last_op' = "SetEnabled" /\ SetEnabled(e))
               => /\ s'.enabled = e
                  /\ s'.down = s.down
                  /\ s'.down_point = s.down_point
                  /\ s'.prev_angles = s.prev_angles
                  /\ s'.current_angles = s.current_angles
                  /\ s'.wheel_delta = s.wheel_delta
                  /\ s'.offset = s.offset
                  /\ [s' EXCEPT !.enabled = TRUE] = [s EXCEPT !.enabled = TRUE]
                  /\ UNCHANGED <<cc, camera>>]_vars
    /\ [][~s.enabled
            => /\ s'.down = s.down
               /\ s'.down_point = s.down_point
               /\ s'.prev_angles = s.prev_angles
               /\ s'.current_angles = s.current_angles]_vars

\* the controls were just enabled while a drag that has turned the camera, and
\* was never committed, is in progress
C32_Witness ==
    /\ last_op = "SetEnabled"
    /\ s.enabled
    /\ s.down
    /\ s.down_point = <<0, 0>>
    /\ s.current_angles # s.prev_angles

----------------------------------------------------------------------------
(* Claims about update while the controls are disabled (Spec) *)

\* the targets the filters of update ease toward
Goals(st) ==
    <<st.current_angles, st.wheel_delta, st.offset, st.raw_mouse_x, st.raw_mouse_y>>

\* C33: update(dt) is not gated by the enabled flag: while enabled = false each
\* update still eases final_radians, radius, the eased offset and the smoothed
\* pointer toward the targets recorded before the controls were disabled, leaves
\* those targets and the flag as they are, and rewrites the camera position from
\* the eased values.
C33_UpdateWhileDisabled ==
    [][(last_op' = "Update" /\ ~s.enabled) =>
        /\ MovedBy(s.final_radians[1], s'.final_radians[1], s.current_angles[1] * TwoPi, 20)
        /\ MovedBy(s.final_radians[2], s'.final_radians[2], s.current_angles[2] * TwoPi, 50)
        /\ MovedBy(cc.radius, cc'.radius, s.wheel_delta, 20)
        /\ MovedBy(cc.offset_ease.x, cc'.offset_ease.x, s.offset.x, 10)
        /\ MovedBy(cc.offset_ease.y, cc'.offset_ease.y, s.offset.y, 10)
        /\ MovedBy(cc.offset_ease.z, cc'.offset_ease.z, s.offset.z, 10)
        /\ MovedBy(s.mouse_x, s'.mouse_x, s.raw_mouse_x, 10)
        /\ MovedBy(s.mouse_y, s'.mouse_y, s.raw_mouse_y, 10)
        /\ Goals(s') = Goals(s)
        /\ ~s'.enabled
        /\ camera'.position =
              [ base   |-> Vec3(cc'.target.x + cc'.offset_ease.x,
                                cc'.target.y + cc'.offset_ease.y,
                                cc'.target.z + cc'.offset_ease.z),
                yaw    |-> s'.final_radians[1],
                pitch  |-> s'.final_radians[2],
                radius |-> cc'.radius ] ]_vars

\* a second update ran with the controls disabled while both angles, the radius,
\* the eased offset and the smoothed pointer were still on their way
C33_Witness ==
    /\ last_op = "Update"
    /\ ~s.enabled
    /\ cc.time >= 200
    /\ s.final_radians[1] # s.current_angles[1] * TwoPi
    /\ s.final_radians[2] # s.current_angles[2] * TwoPi
    /\ s.final_radians # <<prev_angles0[1] * TwoPi, prev_angles0[2] * TwoPi>>
    /\ cc.radius # s.wheel_delta
    /\ cc.radius # radius0
    /\ cc.offset_ease # s.offset
    /\ cc.offset_ease # Vec3(0, 0, 0)
    /\ s.mouse_x # s.raw_mouse_x
    /\ s.mouse_x # -1 * Milli
    /\ camera.position.yaw = s.final_radians[1]
    /\ camera.position.radius = cc.radius

----------------------------------------------------------------------------
(* Claims about Scene::add and Scene::remove (SpecRender) *)

\* C34: Scene::remove(index) with index < len returns the mesh at that position,
\* decreases len by one and keeps the relative order of the remaining meshes;
\* with index >= len it returns None and leaves the scene unchanged; Scene::add
\* always appends at the end.
C34_RemoveAndAdd ==
    /\ [][\A index \in 0..MaxMeshes :
            (last_op' = "Remove" /\ SceneRemove(index))
               => IF index < SceneLen(scene)
                  THEN /\ SceneRemoveMesh(scene, index).result.some
                       /\ SceneRemoveMesh(scene, index).result.mesh = scene[index + 1]
                       /\ SceneLen(scene') = SceneLen(scene) - 1
                       /\ \A i \in 1..Len(scene') :
                             scene'[i] = IF i <= index THEN scene[i] ELSE scene[i + 1]
                  ELSE /\ ~SceneRemoveMesh(scene, index).result.some
                       /\ scene' = scene]_vars
    /\ [][last_op' = "Add"
            => /\ SceneLen(scene') = SceneLen(scene) + 1
               /\ SubSeq(scene', 1, Len(scene)) = scene
               /\ scene'[Len(scene')].id = gpu'.meshes
               /\ \A i \in 1..Len(scene) : scene[i].id # gpu'.meshes]_vars

\* the first of three meshes was removed: the two left are the second and the
\* third, in that order
C34_Witness ==
    /\ last_op = "Remove"
    /\ Len(scene) = 2
    /\ scene[1].id = 2
    /\ scene[2].id = 3

====
